---- MODULE Spec2Model ----
(***************************************************************************)
(* Model of the nebenkosten allocation core: calendar primitives,          *)
(* DateCoverage, the occupancy aggregator, Invoice.split and MeterManager. *)
(* Dates are day numbers (datetime.date ordinals relative to a base day);  *)
(* Date.tomorrow / Date.yesterday step by exactly one day.                 *)
(***************************************************************************)
EXTENDS Integers, Sequences, FiniteSets, TLC

\* Last day of the modelled calendar (days are 0..MaxDay).
MaxDay == 3

Days == 0..MaxDay

\* Longest change-point list handed to Invoice.split directly.
MaxSplits == 3

\* Most tenancy records handed to get_people_count_changes.
MaxTenants == 2

\* Most readings handed to MeterManager.__init__.
MaxReadings == 3

\* ------------------------------------------------------------------------
\* types.py: Date, DateRange
\* ------------------------------------------------------------------------

yesterday(self) == self - 1

tomorrow(self) == self + 1

DateRange(begin, end) == [begin |-> begin, end |-> end]

\* Ranges a caller may construct (begin <= end).
ValidRanges == { r \in [begin : Days, end : Days] : r.begin <= r.end }

\* DateRange.__contains__ for a Date argument.
contains_date(self, other) == self.begin <= other /\ other <= self.end

\* DateRange.__contains__ for a DateRange argument.
contains_range(self, other) ==
    contains_date(self, other.begin) /\ contains_date(self, other.end)

\* A plausible slip: the strict-containment test is left out.
overlaps_endpoints_only(self, other) ==
    contains_date(other, self.begin) \/ contains_date(other, self.end)

overlaps(self, other) ==
    IF contains_date(other, self.begin) \/ contains_date(other, self.end)
    THEN TRUE
    ELSE IF self.begin < other.begin /\ self.end > other.end
         THEN TRUE
         ELSE FALSE

\* The days of a range, as a set.
DaysOf(r) == { d \in (r.begin)..(r.end) : TRUE }

\* ------------------------------------------------------------------------
\* types.py: DateCoverage
\* ------------------------------------------------------------------------

\* Slip: the back trim steps one day back from the fragment's own end.
cover_one_back_trim_own_end(not_covered_range, covered) ==
    IF contains_range(covered, not_covered_range)
    THEN <<>>
    ELSE IF contains_date(covered, not_covered_range.begin)
            /\ ~contains_date(covered, not_covered_range.end)
    THEN << DateRange(tomorrow(covered.end), not_covered_range.end) >>
    ELSE IF ~contains_date(covered, not_covered_range.begin)
            /\ contains_date(covered, not_covered_range.end)
    THEN << DateRange(not_covered_range.begin, yesterday(not_covered_range.end)) >>
    ELSE IF contains_range(not_covered_range, covered)
    THEN << DateRange(not_covered_range.begin, yesterday(covered.begin)),
            DateRange(tomorrow(covered.end), not_covered_range.end) >>
    ELSE << not_covered_range >>

\* Slip: the front trim starts on covered.end instead of the day after.
cover_one_front_trim_no_tomorrow(not_covered_range, covered) ==
    IF contains_range(covered, not_covered_range)
    THEN <<>>
    ELSE IF contains_date(covered, not_covered_range.begin)
            /\ ~contains_date(covered, not_covered_range.end)
    THEN << DateRange(covered.end, not_covered_range.end) >>
    ELSE IF ~contains_date(covered, not_covered_range.begin)
            /\ contains_date(covered, not_covered_range.end)
    THEN << DateRange(not_covered_range.begin, yesterday(covered.begin)) >>
    ELSE IF contains_range(not_covered_range, covered)
    THEN << DateRange(not_covered_range.begin, yesterday(covered.begin)),
            DateRange(tomorrow(covered.end), not_covered_range.end) >>
    ELSE << not_covered_range >>

\* Slip: the middle case keeps only the fragment in front of covered.
cover_one_middle_keeps_front_only(not_covered_range, covered) ==
    IF contains_range(covered, not_covered_range)
    THEN <<>>
    ELSE IF contains_date(covered, not_covered_range.begin)
            /\ ~contains_date(covered, not_covered_range.end)
    THEN << DateRange(tomorrow(covered.end), not_covered_range.end) >>
    ELSE IF ~contains_date(covered, not_covered_range.begin)
            /\ contains_date(covered, not_covered_range.end)
    THEN << DateRange(not_covered_range.begin, yesterday(covered.begin)) >>
    ELSE IF contains_range(not_covered_range, covered)
    THEN << DateRange(not_covered_range.begin, yesterday(covered.begin)) >>
    ELSE << not_covered_range >>

\* Slip: the middle case appends the fragment behind covered first.
cover_one_middle_back_first(not_covered_range, covered) ==
    IF contains_range(covered, not_covered_range)
    THEN <<>>
    ELSE IF contains_date(covered, not_covered_range.begin)
            /\ ~contains_date(covered, not_covered_range.end)
    THEN << DateRange(tomorrow(covered.end), not_covered_range.end) >>
    ELSE IF ~contains_date(covered, not_covered_range.begin)
            /\ contains_date(covered, not_covered_range.end)
    THEN << DateRange(not_covered_range.begin, yesterday(covered.begin)) >>
    ELSE IF contains_range(not_covered_range, covered)
    THEN << DateRange(tomorrow(covered.end), not_covered_range.end),
            DateRange(not_covered_range.begin, yesterday(covered.begin)) >>
    ELSE << not_covered_range >>

\* Slip: a completely covered range is not skipped but goes through the
\* four cases.
cover_one_without_covered_check(not_covered_range, covered) ==
    IF contains_date(covered, not_covered_range.begin)
            /\ ~contains_date(covered, not_covered_range.end)
    THEN << DateRange(tomorrow(covered.end), not_covered_range.end) >>
    ELSE IF ~contains_date(covered, not_covered_range.begin)
            /\ contains_date(covered, not_covered_range.end)
    THEN << DateRange(not_covered_range.begin, yesterday(covered.begin)) >>
    ELSE IF contains_range(not_covered_range, covered)
    THEN << DateRange(not_covered_range.begin, yesterday(covered.begin)),
            DateRange(tomorrow(covered.end), not_covered_range.end) >>
    ELSE << not_covered_range >>

\* One iteration of the loop in DateCoverage.cover: the fragments appended
\* to new_ranges for one tracked range.
cover_one(not_covered_range, covered) ==
    IF contains_range(covered, not_covered_range)
    THEN <<>>                                             \* continue
    ELSE IF contains_date(covered, not_covered_range.begin)
            /\ ~contains_date(covered, not_covered_range.end)
    THEN << DateRange(tomorrow(covered.end), not_covered_range.end) >>
    ELSE IF ~contains_date(covered, not_covered_range.begin)
            /\ contains_date(covered, not_covered_range.end)
    THEN << DateRange(not_covered_range.begin, yesterday(covered.begin)) >>
    ELSE IF contains_range(not_covered_range, covered)
    THEN << DateRange(not_covered_range.begin, yesterday(covered.begin)),
            DateRange(tomorrow(covered.end), not_covered_range.end) >>
    ELSE << not_covered_range >>

\* Slip: what remains of a range is put in front of new_ranges.
RECURSIVE cover_loop_newest_first(_, _, _, _)
cover_loop_newest_first(self_ranges, covered, i, new_ranges) ==
    IF i > Len(self_ranges)
    THEN new_ranges
    ELSE cover_loop_newest_first(self_ranges, covered, i + 1,
                                 cover_one(self_ranges[i], covered) \o new_ranges)

RECURSIVE cover_loop(_, _, _, _)
cover_loop(self_ranges, covered, i, new_ranges) ==
    IF i > Len(self_ranges)
    THEN new_ranges
    ELSE cover_loop(self_ranges, covered, i + 1,
                    new_ranges \o cover_one(self_ranges[i], covered))

\* DateCoverage.cover: the new value of self.ranges.
cover(self_ranges, covered) == cover_loop(self_ranges, covered, 1, <<>>)

\* ------------------------------------------------------------------------
\* types.py: Tenant;  __init__.py: get_people_count_changes
\* ------------------------------------------------------------------------

\* A Tenant is [moving_in, moving_out, people]; moving_out is <<>> for None
\* and <<d>> for a Date.  Name, appartement, rent and advance are passed
\* through and read by none of the operations below.
Tenant(moving_in, moving_out, people) ==
    [moving_in |-> moving_in, moving_out |-> moving_out, people |-> people]

\* Slip: the day of moving out no longer counts as resident.
tenant_contains_moving_out_exclusive(self, date) ==
    IF date < self.moving_in
    THEN FALSE
    ELSE IF self.moving_out # <<>>
         THEN date < self.moving_out[1]
         ELSE TRUE

\* Tenant.__contains__
tenant_contains(self, date) ==
    IF date < self.moving_in
    THEN FALSE
    ELSE IF self.moving_out # <<>>
         THEN date <= self.moving_out[1]
         ELSE TRUE

\* sum(t.people for t in tenants if date in t)
RECURSIVE sum_people(_, _, _)
sum_people(tenants, date, i) ==
    IF i > Len(tenants)
    THEN 0
    ELSE (IF tenant_contains(tenants[i], date) THEN tenants[i].people ELSE 0)
         + sum_people(tenants, date, i + 1)

\* Slip: a change point is appended for every day, changed or not.
people_count_step_every_day(ret, date, people_count, people_count_before) ==
    Append(ret, <<date, people_count>>)

\* The body of the while loop in get_people_count_changes: the new ret.
people_count_step(ret, date, people_count, people_count_before) ==
    IF people_count # people_count_before
    THEN Append(ret, <<date, people_count>>)
    ELSE ret

RECURSIVE people_count_loop(_, _, _, _, _)
people_count_loop(range, tenants, date, people_count_before, ret) ==
    IF ~(date <= range.end)
    THEN ret
    ELSE LET people_count == sum_people(tenants, date, 1)
         IN  people_count_loop(range, tenants, tomorrow(date), people_count,
                 people_count_step(ret, date, people_count, people_count_before))

\* Slip: the count before the first day is taken to be 0.
people_count_changes_from_zero(range, tenants) ==
    people_count_loop(range, tenants, range.begin, 0, <<>>)

\* get_people_count_changes(range, tenants): a sequence of <<date, count>>.
get_people_count_changes(range, tenants) ==
    people_count_loop(range, tenants, range.begin, -1, <<>>)

\* ------------------------------------------------------------------------
\* types.py: Invoice.split
\* ------------------------------------------------------------------------

\* Python's max(a, b) and min(a, b) on Dates.
max_date(a, b) == IF b > a THEN b ELSE a

min_date(a, b) == IF b < a THEN b ELSE a

\* Only Invoice.range is read or written by split; every other field is
\* carried over by copy.deepcopy.  A returned (invoice_split, count) pair is
\* [range, people_count].
SubInvoice(range, people_count) == [range |-> range, people_count |-> people_count]

\* Slip: the closed sub-invoice ends on the split date itself.
split_close_no_yesterday(self_range, invoice_begin, split_date, people_count_before) ==
    SubInvoice(DateRange(max_date(self_range.begin, invoice_begin),
                         min_date(self_range.end, split_date)),
               people_count_before)

\* Slip: the closed sub-invoice is not cut at the invoice's last day.
split_close_without_min(self_range, invoice_begin, split_date, people_count_before) ==
    SubInvoice(DateRange(max_date(self_range.begin, invoice_begin),
                         yesterday(split_date)),
               people_count_before)

\* Lines 161-164: the sub-invoice closed at a split date.
split_close(self_range, invoice_begin, split_date, people_count_before) ==
    SubInvoice(DateRange(max_date(self_range.begin, invoice_begin),
                         min_date(self_range.end, yesterday(split_date))),
               people_count_before)

\* Slip: the tag is the count that starts on the split date, not the one
\* that held before it.
split_tag_new_count(people_count_before, people_count) == people_count

\* The occupant count a sub-invoice closed at a split date is tagged with.
split_tag(people_count_before, people_count) == people_count_before

\* Slip: the loop already stops at a split date on the invoice's last day.
end_of_invoice_at_last_day(split_date, self_range) == split_date >= self_range.end

\* Lines 170-172: the split date lies behind the invoice, the loop breaks.
end_of_invoice(split_date, self_range) == split_date > self_range.end

\* Slip: a split date on the invoice's first day is not skipped.
RECURSIVE split_loop_without_begin_skip(_, _, _, _, _, _)
split_loop_without_begin_skip(self_range, split_dates, i, people_count_before, invoice_begin, ret) ==
    IF i > Len(split_dates)
    THEN Append(ret, SubInvoice(DateRange(invoice_begin, self_range.end),
                                people_count_before))
    ELSE LET split_date   == split_dates[i][1]
             people_count == split_dates[i][2]
             closes       == split_date >= self_range.begin
             ret2         == IF closes
                             THEN Append(ret,
                                    split_close(self_range, invoice_begin, split_date,
                                        split_tag(people_count_before, people_count)))
                             ELSE ret
             begin2       == IF closes THEN split_date ELSE invoice_begin
         IN  IF end_of_invoice(split_date, self_range)
             THEN ret2
             ELSE split_loop_without_begin_skip(self_range, split_dates, i + 1,
                                                people_count, begin2, ret2)

RECURSIVE split_loop(_, _, _, _, _, _)
split_loop(self_range, split_dates, i, people_count_before, invoice_begin, ret) ==
    IF i > Len(split_dates)
    THEN \* loop exhausted, end_of_invoice is False (lines 174-177)
         Append(ret, SubInvoice(DateRange(invoice_begin, self_range.end),
                                people_count_before))
    ELSE LET split_date   == split_dates[i][1]
             people_count == split_dates[i][2]
         IN  IF split_date = self_range.begin
             THEN split_loop(self_range, split_dates, i + 1,
                             people_count, invoice_begin, ret)
             ELSE LET closes == split_date >= self_range.begin
                      ret2   == IF closes
                                THEN Append(ret,
                                       split_close(self_range, invoice_begin, split_date,
                                           split_tag(people_count_before, people_count)))
                                ELSE ret
                      begin2 == IF closes THEN split_date ELSE invoice_begin
                  IN  IF end_of_invoice(split_date, self_range)
                      THEN ret2                       \* break
                      ELSE split_loop(self_range, split_dates, i + 1,
                                      people_count, begin2, ret2)

\* Invoice.split(split_dates) for an invoice with range self_range.
split(self_range, split_dates) ==
    IF split_dates = <<>>
    THEN <<>>
    ELSE split_loop(self_range, split_dates, 1, split_dates[1][2],
                    self_range.begin, <<>>)

\* ------------------------------------------------------------------------
\* meter.py: MeterManager
\* ------------------------------------------------------------------------

\* A MeterValue is [name, count, date, notes, row]; count is <<>> for None
\* and <<c>> for a reading c (in tenths of a unit), row is <<>> until
\* set_row has attached the attribute and <<r>> afterwards.
MeterValue(name, count, date, notes) ==
    [name |-> name, count |-> count, date |-> date, notes |-> notes, row |-> <<>>]

\* { mv.date: mv for mv in meter_values if mv.name == meter_name }: for a
\* date that occurs more than once, the last reading in the list wins.
init_values(meter_values, meter_name) ==
    [ d \in { meter_values[i].date :
                i \in { k \in 1..Len(meter_values) : meter_values[k].name = meter_name } } |->
        meter_values[CHOOSE i \in 1..Len(meter_values) :
            /\ meter_values[i].name = meter_name
            /\ meter_values[i].date = d
            /\ \A j \in 1..Len(meter_values) :
                   (meter_values[j].name = meter_name /\ meter_values[j].date = d) => j <= i] ]

\* Slip: the keys are listed from the latest to the earliest.
RECURSIVE sorted_latest_first(_)
sorted_latest_first(keys) ==
    IF keys = {}
    THEN <<>>
    ELSE LET latest == CHOOSE k \in keys : \A other \in keys : other <= k
         IN  << latest >> \o sorted_latest_first(keys \ {latest})

\* sorted(list(keys)): the keys in ascending order.
RECURSIVE sorted(_)
sorted(keys) ==
    IF keys = {}
    THEN <<>>
    ELSE LET least == CHOOSE k \in keys : \A other \in keys : k <= other
         IN  << least >> \o sorted(keys \ {least})

\* bisect.bisect_left(a, x), with Python's 0-based lo, hi and mid.
RECURSIVE bisect_loop(_, _, _, _)
bisect_loop(a, x, lo, hi) ==
    IF lo < hi
    THEN LET mid == (lo + hi) \div 2
         IN  IF a[mid + 1] < x
             THEN bisect_loop(a, x, mid + 1, hi)
             ELSE bisect_loop(a, x, lo, mid)
    ELSE lo

bisect_left(a, x) == bisect_loop(a, x, 0, Len(a))

\* Slip: the entry of the date is replaced even when one is there.
add_meter_value_overwrites(values, meter_name, date) ==
    [ d \in DOMAIN values \cup {date} |->
        IF d = date
        THEN MeterValue(meter_name, <<>>, date, "Berechnet")
        ELSE values[d] ]

\* MeterManager.add_meter_value: the new self.values.
add_meter_value(values, meter_name, date) ==
    IF date \in DOMAIN values
    THEN values
    ELSE [ d \in DOMAIN values \cup {date} |->
             IF d = date
             THEN MeterValue(meter_name, <<>>, date, "Berechnet")
             ELSE values[d] ]

\* MeterManager.set_row: the new self.values (date is a key of values).
set_row(values, date, row) ==
    [ values EXCEPT ![date] = [ @ EXCEPT !.row = << row >> ] ]

\* Slip: the search also runs over the dates add_meter_value inserted.
surrounding_dates_over_all_values(measured_dates, values, date) ==
    LET all == sorted(DOMAIN values \ {date})
        idx == bisect_left(all, date)
    IN  IF 0 = idx
        THEN [ok |-> FALSE, error |-> "no reading before"]
        ELSE IF idx >= Len(all)
        THEN [ok |-> FALSE, error |-> "no reading after"]
        ELSE [ok |-> TRUE, before |-> all[idx], after |-> all[idx + 1]]

\* Slip: bisect_right is used, so a measured date is its own lower end.
surrounding_dates_bisect_right(measured_dates, values, date) ==
    LET idx == Cardinality({ i \in 1..Len(measured_dates) : measured_dates[i] <= date })
    IN  IF 0 = idx
        THEN [ok |-> FALSE, error |-> "no reading before"]
        ELSE IF idx >= Len(measured_dates)
        THEN [ok |-> FALSE, error |-> "no reading after"]
        ELSE [ok |-> TRUE, before |-> measured_dates[idx],
                           after |-> measured_dates[idx + 1]]

\* MeterManager.__get_surrounding_dates: the pair it returns, or the
\* MeterValueException it raises.  Of self it reads _measured_dates only.
get_surrounding_dates(measured_dates, values, date) ==
    LET idx == bisect_left(measured_dates, date)
    IN  IF 0 = idx
        THEN [ok |-> FALSE, error |-> "no reading before"]
        ELSE IF idx >= Len(measured_dates)
        THEN [ok |-> FALSE, error |-> "no reading after"]
        ELSE [ok |-> TRUE, before |-> measured_dates[idx],
                           after |-> measured_dates[idx + 1]]

\* Slip: the days up to the query date are counted from the later reading.
count_formula_days_from_after(before_row, after_row, date_row) ==
    [ base             |-> before_row,
      delta_value      |-> << after_row, before_row >>,
      delta_days_total |-> << after_row, before_row >>,
      delta_days_new   |-> << date_row, after_row >> ]

\* The formula string of get_count_formula (lines 52-61), by its parts:
\*   =C{base}+(C{dv[1]}-C{dv[2]})/_xlfn.days(B{dt[1]},B{dt[2]})
\*                               *_xlfn.days(B{dn[1]},B{dn[2]})
count_formula(before_row, after_row, date_row) ==
    [ base             |-> before_row,
      delta_value      |-> << after_row, before_row >>,
      delta_days_total |-> << after_row, before_row >>,
      delta_days_new   |-> << date_row, before_row >> ]

\* MeterManager.get_count_formula: the formula, or the exception raised.
\* get_row(before) and get_row(after) are evaluated first, get_row(date)
\* last; get_row raises KeyError for a date that is no key of values and
\* AttributeError for a MeterValue that set_row has not been called on.
get_count_formula(measured_dates, values, date) ==
    LET found == get_surrounding_dates(measured_dates, values, date)
    IN  IF ~found.ok
        THEN [kind |-> "MeterValueException", error |-> found.error]
        ELSE IF values[found.before].row = <<>> \/ values[found.after].row = <<>>
        THEN [kind |-> "AttributeError", before |-> found.before, after |-> found.after]
        ELSE IF date \notin DOMAIN values
        THEN [kind |-> "KeyError", before |-> found.before, after |-> found.after]
        ELSE IF values[date].row = <<>>
        THEN [kind |-> "AttributeError", before |-> found.before, after |-> found.after]
        ELSE [kind |-> "formula", before |-> found.before, after |-> found.after,
              formula |-> count_formula(values[found.before].row[1],
                                        values[found.after].row[1],
                                        values[date].row[1])]

\* Excel's DAYS(end_date, start_date), the function the formula names.
xlfn_days(end_date, start_date) == end_date - start_date

\* ------------------------------------------------------------------------
\* Invoice.split on objects: which Invoice and DateRange objects it creates
\* ------------------------------------------------------------------------

\* The objects split works on: inv_range[i] is the DateRange object that
\* Invoice object i refers to by its field range, range_objs[r] holds the
\* fields of DateRange object r.  The other fields of an Invoice are strings
\* and a Date, which split neither reads nor writes.
Heap(inv_range, range_objs) == [inv_range |-> inv_range, range_objs |-> range_objs]

\* invoice.range, read through the reference.
range_of(heap, inv) == heap.range_objs[heap.inv_range[inv]]

\* Slip: copy.copy(self), a new Invoice object that refers to the DateRange
\* object of the original.
copy_shares_range(heap, inv) ==
    Heap(Append(heap.inv_range, heap.inv_range[inv]), heap.range_objs)

\* copy.deepcopy(self): a new Invoice object with a new DateRange object of
\* equal fields; the new Invoice is the last object of the heap.
deepcopy(heap, inv) ==
    Heap(Append(heap.inv_range, Len(heap.range_objs) + 1),
         Append(heap.range_objs, range_of(heap, inv)))

\* invoice.range.begin = date
set_range_begin(heap, inv, date) ==
    [ heap EXCEPT !.range_objs[heap.inv_range[inv]].begin = date ]

\* invoice.range.end = date
set_range_end(heap, inv, date) ==
    [ heap EXCEPT !.range_objs[heap.inv_range[inv]].end = date ]

\* Lines 161-164 on objects: self.range is read again for each assignment.
heap_split_close(heap, self, invoice_begin, split_date) ==
    LET copied == deepcopy(heap, self)
        new    == Len(copied.inv_range)
        begun  == set_range_begin(copied, new,
                      max_date(range_of(copied, self).begin, invoice_begin))
    IN  set_range_end(begun, new,
            min_date(range_of(begun, self).end, yesterday(split_date)))

\* Lines 174-177 on objects.
heap_split_tail(heap, self, invoice_begin) ==
    LET copied == deepcopy(heap, self)
    IN  set_range_begin(copied, Len(copied.inv_range), invoice_begin)

\* The loop of Invoice.split on objects; ret holds (Invoice object, count).
RECURSIVE heap_split_loop(_, _, _, _, _, _, _)
heap_split_loop(heap, self, split_dates, i, people_count_before, invoice_begin, ret) ==
    IF i > Len(split_dates)
    THEN LET tail == heap_split_tail(heap, self, invoice_begin)
         IN  [heap |-> tail,
              ret  |-> Append(ret, [invoice |-> Len(tail.inv_range),
                                    people_count |-> people_count_before])]
    ELSE LET split_date   == split_dates[i][1]
             people_count == split_dates[i][2]
         IN  IF split_date = range_of(heap, self).begin
             THEN heap_split_loop(heap, self, split_dates, i + 1,
                                  people_count, invoice_begin, ret)
             ELSE LET closes == split_date >= range_of(heap, self).begin
                      heap2  == IF closes
                                THEN heap_split_close(heap, self, invoice_begin, split_date)
                                ELSE heap
                      ret2   == IF closes
                                THEN Append(ret,
                                       [invoice |-> Len(heap2.inv_range),
                                        people_count |->
                                            split_tag(people_count_before, people_count)])
                                ELSE ret
                      begin2 == IF closes THEN split_date ELSE invoice_begin
                  IN  IF end_of_invoice(split_date, range_of(heap2, self))
                      THEN [heap |-> heap2, ret |-> ret2]
                      ELSE heap_split_loop(heap2, self, split_dates, i + 1,
                                           people_count, begin2, ret2)

\* Invoice.split(split_dates) on Invoice object self.
heap_split(heap, self, split_dates) ==
    IF split_dates = <<>>
    THEN [heap |-> heap, ret |-> <<>>]
    ELSE heap_split_loop(heap, self, split_dates, 1, split_dates[1][2],
                         range_of(heap, self).begin, <<>>)

\* ------------------------------------------------------------------------
\* excel.py: InputSheetReader.__init__, apartment and tenant of the bill
\* ------------------------------------------------------------------------

\* A tenant row with the apartment it rents; name, rent and advance are
\* passed through.
ApartmentTenant(appartement, moving_in, moving_out, people) ==
    [appartement |-> appartement, moving_in |-> moving_in,
     moving_out |-> moving_out, people |-> people]

\* An apartment row: name and size.
Appartement(name, size) == [name |-> name, size |-> size]

\* next((a for a in self.appartements if a.name == appartement_name), None)
RECURSIVE find_appartement(_, _, _)
find_appartement(appartements, appartement_name, i) ==
    IF i > Len(appartements)
    THEN <<>>
    ELSE IF appartements[i].name = appartement_name
    THEN << appartements[i] >>
    ELSE find_appartement(appartements, appartement_name, i + 1)

\* Slip: the tenant is looked up without regard to the apartment.
RECURSIVE find_tenant_of_any_appartement(_, _, _, _)
find_tenant_of_any_appartement(tenants, date, appartement_name, i) ==
    IF i > Len(tenants)
    THEN <<>>
    ELSE IF tenant_contains(tenants[i], date)
    THEN << tenants[i] >>
    ELSE find_tenant_of_any_appartement(tenants, date, appartement_name, i + 1)

\* next((t for t in self.tenants if bill_range.begin in t
\*       and t.appartement == appartement_name), None)
RECURSIVE find_tenant(_, _, _, _)
find_tenant(tenants, date, appartement_name, i) ==
    IF i > Len(tenants)
    THEN <<>>
    ELSE IF tenant_contains(tenants[i], date) /\ tenants[i].appartement = appartement_name
    THEN << tenants[i] >>
    ELSE find_tenant(tenants, date, appartement_name, i + 1)

\* What InputSheetReader.__init__ leaves in self.tenant, or the InputFileError
\* it raises (rows that parse; invoices and meter values do not bear on it).
read_tenant(appartements, tenants, appartement_name, bill_range) ==
    IF find_appartement(appartements, appartement_name, 1) = <<>>
    THEN [kind |-> "InputFileError", log |-> "Gesuchte Wohnung nicht in Eingabedatei!"]
    ELSE LET tenant == find_tenant(tenants, bill_range.begin, appartement_name, 1)
         IN  IF tenant = <<>>
             THEN [kind |-> "InputFileError",
                   log  |-> "Kein Mieter fuer den Zeitraum in der Wohnung bekannt."]
             ELSE IF ~tenant_contains(tenant[1], bill_range.end)
             THEN [kind |-> "InputFileError",
                   log  |-> "Der Mieter war nicht ueber den gesamten Rechnungszeitraum in der Wohnung"]
             ELSE [kind |-> "InputSheetReader", tenant |-> tenant[1]]

\* ------------------------------------------------------------------------
\* createbill.py: get_meter_value, get_consumption
\* ------------------------------------------------------------------------

\* The count of a MeterValue as createbill.py writes it into a formula: a
\* measured number, or the text get_meter_value builds for an estimate,
\*   (end_count-start_count)/_xlfn.days("end_date", "start_date")
\*                          *_xlfn.days("date", "start_date")
Measured(count) == [op |-> "number", value |-> count]

\* Lines 418-423: the MeterValue returned for a date without a reading.
cb_estimate(meter_name, mv_start, mv_end, date) ==
    [kind  |-> "MeterValue",
     name  |-> meter_name,
     count |-> [op          |-> "estimate",
                end_count   |-> mv_end.count[1],
                start_count |-> mv_start.count[1],
                end_date    |-> mv_end.date,
                start_date  |-> mv_start.date,
                date        |-> date],
     date  |-> date,
     notes |-> "Geschaetzt"]

\* The for loop of get_meter_value (lines 402-409): found is <<mv>> when a
\* reading on the date is returned, mv_start and mv_end are <<>> for None.
RECURSIVE cb_scan(_, _, _, _)
cb_scan(meter_values, date, i, mv_start) ==
    IF i > Len(meter_values)
    THEN [found |-> <<>>, mv_start |-> mv_start, mv_end |-> <<>>]
    ELSE IF meter_values[i].date = date
    THEN [found |-> << meter_values[i] >>, mv_start |-> mv_start, mv_end |-> <<>>]
    ELSE IF meter_values[i].date < date
    THEN cb_scan(meter_values, date, i + 1, << meter_values[i] >>)
    ELSE [found |-> <<>>, mv_start |-> mv_start, mv_end |-> << meter_values[i] >>]

\* Slip: after the last reading the last reading itself is returned.
cb_get_meter_value_holds_last_reading(meter_values, meter_name, date) ==
    LET scan == cb_scan(meter_values, date, 1, <<>>)
    IN  IF scan.found # <<>>
        THEN [kind  |-> "MeterValue",
              name  |-> scan.found[1].name,
              count |-> Measured(scan.found[1].count[1]),
              date  |-> scan.found[1].date,
              notes |-> scan.found[1].notes]
        ELSE IF scan.mv_start = <<>>
        THEN [kind |-> "MeterValueException", error |-> "no reading before"]
        ELSE IF scan.mv_end = <<>>
        THEN [kind  |-> "MeterValue",
              name  |-> scan.mv_start[1].name,
              count |-> Measured(scan.mv_start[1].count[1]),
              date  |-> date,
              notes |-> scan.mv_start[1].notes]
        ELSE cb_estimate(meter_name, scan.mv_start[1], scan.mv_end[1], date)

\* createbill.get_meter_value(meter_values, meter_name, date)
cb_get_meter_value(meter_values, meter_name, date) ==
    LET scan == cb_scan(meter_values, date, 1, <<>>)
    IN  IF scan.found # <<>>
        THEN [kind  |-> "MeterValue",
              name  |-> scan.found[1].name,
              count |-> Measured(scan.found[1].count[1]),
              date  |-> scan.found[1].date,
              notes |-> scan.found[1].notes]
        ELSE IF scan.mv_start = <<>>
        THEN [kind |-> "MeterValueException", error |-> "no reading before"]
        ELSE IF scan.mv_end = <<>>
        THEN [kind |-> "MeterValueException", error |-> "no reading after"]
        ELSE cb_estimate(meter_name, scan.mv_start[1], scan.mv_end[1], date)

\* list(filter(lambda mv: mv.name == meter_name, meter_values))
RECURSIVE filter_by_name(_, _, _)
filter_by_name(meter_values, meter_name, i) ==
    IF i > Len(meter_values)
    THEN <<>>
    ELSE (IF meter_values[i].name = meter_name THEN << meter_values[i] >> ELSE <<>>)
         \o filter_by_name(meter_values, meter_name, i + 1)

\* The list without its i-th element.
without(seq, i) == [ k \in 1..(Len(seq) - 1) |-> IF k < i THEN seq[k] ELSE seq[k + 1] ]

\* sorted(meter_values, key=lambda mv: mv.date): ascending by date, stable.
RECURSIVE sorted_by_date(_)
sorted_by_date(meter_values) ==
    IF meter_values = <<>>
    THEN <<>>
    ELSE LET first == CHOOSE i \in 1..Len(meter_values) :
                          \A j \in 1..Len(meter_values) :
                              \/ meter_values[i].date < meter_values[j].date
                              \/ (meter_values[i].date = meter_values[j].date /\ i <= j)
         IN  << meter_values[first] >> \o sorted_by_date(without(meter_values, first))

\* createbill.get_consumption(meter_name, meter_values, range): the text
\* "{mv_end.count}-{mv_start.count}" by its two parts, or the exception.
cb_get_consumption(meter_name, meter_values, range) ==
    IF meter_name = ""
    THEN [kind |-> "MeterValueException", error |-> "no meter"]
    ELSE LET named    == sorted_by_date(filter_by_name(meter_values, meter_name, 1))
             mv_start == cb_get_meter_value(named, meter_name, range.begin)
             mv_end   == cb_get_meter_value(named, meter_name, range.end)
         IN  IF mv_start.kind = "MeterValueException"
             THEN mv_start
             ELSE IF mv_end.kind = "MeterValueException"
             THEN mv_end
             ELSE [kind |-> "consumption", minuend |-> mv_end.count,
                   subtrahend |-> mv_start.count]

\* ------------------------------------------------------------------------
\* createbill.py: BillItem, split_invoice_where_person_count_changes, main
\* ------------------------------------------------------------------------

\* createbill.py's DateRange.overlaps: an end point of self lies in other.
cb_overlaps(self, other) ==
    contains_date(other, self.begin) \/ contains_date(other, self.end)

\* Rows of the input tables, by the fields main reads.
InvoiceRow(type, range) == [type |-> type, range |-> range]

BillCalculationItem(appartement, bill_split, invoice_type, meter) ==
    [appartement |-> appartement, split |-> bill_split,
     invoice_type |-> invoice_type, meter |-> meter]

\* sum([a.size for a in appartements])
RECURSIVE sum_sizes(_, _)
sum_sizes(appartements, i) ==
    IF i > Len(appartements)
    THEN 0
    ELSE appartements[i].size + sum_sizes(appartements, i + 1)

\* BillItem.__get_share_percentage: the text of the share cell by its parts
\* ('Haelfte' stands for the tag written with a-umlaut), or the exception.
get_share_percentage(appartements, bill_split, total_people_count, appartement_size, consumption, tenant) ==
    IF bill_split = "Pro Wohnung"
    THEN [kind |-> "share", num |-> 1, den |-> Len(appartements)]
    ELSE IF bill_split = "Pro Person"
    THEN [kind |-> "share", num |-> tenant[1].people, den |-> total_people_count]
    ELSE IF bill_split = "Pro Quadratmeter"
    THEN [kind |-> "share", num |-> appartement_size, den |-> sum_sizes(appartements, 1)]
    ELSE IF bill_split = "Nach Verbrauch"
    THEN consumption
    ELSE IF bill_split = "Haelfte"
    THEN [kind |-> "share", num |-> 1, den |-> 2]
    ELSE IF bill_split = "Drittel"
    THEN [kind |-> "share", num |-> 1, den |-> 3]
    ELSE IF bill_split = "Viertel"
    THEN [kind |-> "share", num |-> 1, den |-> 4]
    ELSE IF bill_split = "Komplett"
    THEN [kind |-> "share", num |-> 1, den |-> 1]
    ELSE [kind |-> "InvalidCellValue", split |-> bill_split]

\* BillItem.__init__: the fields main's claims read, or the exception of
\* __get_share_percentage.  days is '=_xlfn.days(B{row}, A{row})', kept as
\* the row it refers to; invoice_range_days is
\* '=_xlfn.days("{invoice.range.end}", "{invoice.range.begin}")' of the
\* invoice object passed in, kept as its two dates.
BillItem(invoice, bci, appartements, bill_range, row_idx, total_people_count, appartement_size, consumption, tenant) ==
    LET share == get_share_percentage(appartements, bci.split, total_people_count,
                                      appartement_size, consumption, tenant)
    IN  IF share.kind = "InvalidCellValue"
        THEN share
        ELSE [kind               |-> "BillItem",
              range              |-> DateRange(max_date(bill_range.begin, invoice.range.begin),
                                               min_date(bill_range.end, invoice.range.end)),
              days               |-> row_idx,
              type               |-> invoice.type,
              invoice_range_days |-> [end |-> invoice.range.end,
                                      begin |-> invoice.range.begin],
              share_name         |-> bci.split,
              share_percentage   |-> share]

\* The loop of split_invoice_where_person_count_changes (lines 373-390).
RECURSIVE cb_split_loop(_, _, _, _, _, _, _)
cb_split_loop(split_dates, invoice_range, range, i, people_count_before, invoice_begin, ret) ==
    IF i > Len(split_dates)
    THEN Append(ret, SubInvoice(DateRange(invoice_begin, invoice_range.end),
                                people_count_before))
    ELSE LET split_date   == split_dates[i][1]
             people_count == split_dates[i][2]
         IN  IF split_date = range.begin
             THEN cb_split_loop(split_dates, invoice_range, range, i + 1,
                                people_count, invoice_begin, ret)
             ELSE LET closes == split_date >= invoice_range.begin
                      ret2   == IF closes
                                THEN Append(ret,
                                       SubInvoice(
                                         DateRange(max_date(invoice_range.begin, invoice_begin),
                                                   min_date(invoice_range.end,
                                                            yesterday(split_date))),
                                         people_count_before))
                                ELSE ret
                      begin2 == IF closes THEN split_date ELSE invoice_begin
                  IN  IF split_date > invoice_range.end
                      THEN ret2
                      ELSE cb_split_loop(split_dates, invoice_range, range, i + 1,
                                         people_count, begin2, ret2)

\* split_invoice_where_person_count_changes(split_dates, invoice, range)
split_invoice_where_person_count_changes(split_dates, invoice_range, range) ==
    cb_split_loop(split_dates, invoice_range, range, 1, 0, invoice_range.begin, <<>>)

\* createbill.py's get_people_count_change_dates, line by line the loop of
\* the package's get_people_count_changes.
get_people_count_change_dates(tenants, range) == get_people_count_changes(range, tenants)

\* next(t for t in tenants if bill_range.begin in t)
RECURSIVE cb_find_tenant(_, _, _)
cb_find_tenant(tenants, date, i) ==
    IF i > Len(tenants)
    THEN <<>>
    ELSE IF tenant_contains(tenants[i], date)
    THEN << tenants[i] >>
    ELSE cb_find_tenant(tenants, date, i + 1)

\* next(a for a in appartements if a.name == args.appartement)
RECURSIVE cb_find_appartement(_, _, _)
cb_find_appartement(appartements, name, i) ==
    IF i > Len(appartements)
    THEN <<>>
    ELSE IF appartements[i].name = name
    THEN << appartements[i] >>
    ELSE cb_find_appartement(appartements, name, i + 1)

\* Slip: the row counter stays where it is after a write.
next_row_stays(row) == row

\* row += 1
next_row(row) == row + 1

\* result_sheet.write(row, bill_item); row += 1.  A run of main is
\* [row, written, raised]: the row counter, the writes in the order they were
\* made, each with the place in the loops it was made at (BCI, invoice and
\* sub-invoice by their positions in the input lists and in the split), and
\* <<e>> once exception e was raised.
write(run, bill_item, origin) ==
    [ run EXCEPT !.written = Append(@, [row |-> run.row, bill_item |-> bill_item,
                                        origin |-> origin]),
                 !.row = next_row(run.row) ]

raise(run, exception) == [ run EXCEPT !.raised = << exception >> ]

\* Lines 460-463: the loop over the sub-invoices of one invoice.
RECURSIVE main_sub_invoices(_, _, _, _, _, _)
main_sub_invoices(in, run, i, j, splits, k) ==
    IF run.raised # <<>> \/ k > Len(splits)
    THEN run
    ELSE LET bill_item == BillItem(InvoiceRow(in.invoices[j].type, splits[k].range),
                                   in.bcis[i], in.appartements, in.bill_range, run.row,
                                   splits[k].people_count, in.appartement_size,
                                   0, in.tenant)
         IN  main_sub_invoices(in, write(run, bill_item, << i, j, k >>), i, j, splits, k + 1)

\* Lines 459-474: the body of the loop over the invoices of one BCI.
main_invoice(in, run, i, j) ==
    LET bci     == in.bcis[i]
        invoice == in.invoices[j]
    IN  IF bci.split = "Pro Person"
        THEN main_sub_invoices(in, run, i, j,
                 split_invoice_where_person_count_changes(in.split_dates, invoice.range,
                                                          invoice.range), 1)
        ELSE IF bci.split = "Nach Verbrauch"
        THEN LET consumption_range ==
                     DateRange(max_date(invoice.range.begin, in.bill_range.begin),
                               min_date(invoice.range.end, in.bill_range.end))
                 consumption ==
                     cb_get_consumption(bci.meter, in.meter_values, consumption_range)
             IN  IF consumption.kind = "MeterValueException"
                 THEN raise(run, consumption)
                 ELSE write(run,
                            BillItem(invoice, bci, in.appartements, in.bill_range, run.row,
                                     0, in.appartement_size, consumption, <<>>),
                            << i, j, 1 >>)
        ELSE LET bill_item == BillItem(invoice, bci, in.appartements, in.bill_range,
                                       run.row, 0, in.appartement_size, 0, <<>>)
             IN  IF bill_item.kind = "InvalidCellValue"
                 THEN raise(run, bill_item)
                 ELSE write(run, bill_item, << i, j, 1 >>)

\* Line 458: the invoices of the BCI's type that overlap the bill range, in
\* input order.
RECURSIVE main_invoices(_, _, _, _)
main_invoices(in, run, i, j) ==
    IF run.raised # <<>> \/ j > Len(in.invoices)
    THEN run
    ELSE IF /\ in.invoices[j].type = in.bcis[i].invoice_type
            /\ cb_overlaps(in.invoices[j].range, in.bill_range)
    THEN main_invoices(in, main_invoice(in, run, i, j), i, j + 1)
    ELSE main_invoices(in, run, i, j + 1)

\* Line 456: the BCIs of the billed apartment, in input order.
RECURSIVE main_bcis(_, _, _)
main_bcis(in, run, i) ==
    IF run.raised # <<>> \/ i > Len(in.bcis)
    THEN run
    ELSE IF in.bcis[i].appartement = in.appartement
    THEN main_bcis(in, main_invoices(in, run, i, 1), i + 1)
    ELSE main_bcis(in, run, i + 1)

\* createbill.main on the tables read and the arguments begin, end and
\* appartement: the run it makes.
main(invoices, appartements, tenants, meter_values, bcis, bill_range, appartement) ==
    LET found_appartement == cb_find_appartement(appartements, appartement, 1)
        found_tenant      == cb_find_tenant(tenants, bill_range.begin, 1)
        start             == [row |-> 2, written |-> <<>>, raised |-> <<>>]
    IN  IF found_appartement = <<>> \/ found_tenant = <<>>
        THEN [row |-> 0, written |-> <<>>, raised |-> << [kind |-> "StopIteration"] >>]
        ELSE main_bcis([invoices         |-> invoices,
                        appartements     |-> appartements,
                        tenants          |-> tenants,
                        meter_values     |-> meter_values,
                        bcis             |-> bcis,
                        bill_range       |-> bill_range,
                        appartement      |-> appartement,
                        split_dates      |-> get_people_count_change_dates(tenants, bill_range),
                        appartement_size |-> found_appartement[1].size,
                        tenant           |-> found_tenant],
                       start, 1)

\* ------------------------------------------------------------------------
\* State
\* ------------------------------------------------------------------------

VARIABLES
    ranges,          \* DateCoverage.ranges
    initial_range,   \* the argument of DateCoverage.__init__ (history)
    covered_days,    \* the days of all ranges passed to cover so far (history)
    last_covered,    \* <<c>> right after cover(c), <<>> after construction (history)
    range_a,         \* receiver and argument of DateRange.overlaps
    range_b,
    overlaps_result, \* <<a.overlaps(b), b.overlaps(a)>> once called, else <<>>
    tenants,         \* the tenants handed to get_people_count_changes
    people_range,    \* the range handed to get_people_count_changes
    split_dates,     \* the change-point list handed to Invoice.split
    source,          \* where split_dates comes from: "none", "given", "aggregator"
    invoice,         \* the range of the invoice split is called on
    split_ret,       \* what Invoice.split returned
    split_called,    \* whether Invoice.split has returned
    meter_values,    \* the readings handed to MeterManager.__init__ (history)
    values,          \* MeterManager.values
    measured_dates,  \* MeterManager._measured_dates
    current_row,     \* ResultSheetWriter._current_row[METER_VALUES]
    sheet,           \* the meter-value sheet: row -> [B: date, C: count]
    query,           \* <<d>> after get_count_formula(d), else <<>> (history)
    answer,          \* what that call returned or raised (history)
    add_called,      \* whether add_meter_value has been called (history)
    cb_query,        \* <<d>> after createbill's get_meter_value for d, else <<>>
    cb_value,        \* what that call returned or raised
    cb_range,        \* <<r>> after createbill's get_consumption for r, else <<>>
    cb_consumption,  \* what that call returned or raised
    heap,            \* the Invoice and DateRange objects (Invoice 1 is split)
    ret_refs,        \* what split returned: (Invoice object, count) pairs
    heap_returned,   \* <<h>> with the heap h as split left it (history)
    touched,         \* <<k>> once the range of sub-invoice k was changed
    appartements,    \* the apartment rows of the input file (names)
    input_tenants,   \* the tenant rows of the input file
    appartement_name,\* the apartment the bill is for
    bill_range,      \* the bill period
    reader,          \* what InputSheetReader(...) returned or raised
    input_invoices,  \* the invoice rows of the input file
    input_bcis,      \* the bill calculation items of the input file
    bill_run         \* <<run>> once createbill.main ran, else <<>>

coverageVars == <<ranges, initial_range, covered_days, last_covered>>

overlapsVars == <<range_a, range_b, overlaps_result>>

splitVars == <<tenants, people_range, split_dates, source, invoice, split_ret, split_called>>

meterVars ==
    <<meter_values, values, measured_dates, current_row, sheet, query, answer, add_called>>

consumptionVars == <<cb_query, cb_value, cb_range, cb_consumption>>

copyVars == <<heap, ret_refs, heap_returned, touched>>

readerVars == <<appartements, input_tenants, appartement_name, bill_range, reader>>

billVars == <<input_invoices, input_bcis, bill_run>>

restVars == <<consumptionVars, copyVars, readerVars, billVars>>

vars == <<coverageVars, overlapsVars, splitVars, meterVars, restVars>>

\* Components a specification does not exercise stay as constructed here.
CoverageIdle ==
    /\ ranges = <<>>
    /\ initial_range = DateRange(0, 0)
    /\ covered_days = {}
    /\ last_covered = <<>>

OverlapsIdle ==
    /\ range_a = DateRange(0, 0)
    /\ range_b = DateRange(0, 0)
    /\ overlaps_result = <<>>

SplitIdle ==
    /\ tenants = <<>>
    /\ people_range = DateRange(0, 0)
    /\ split_dates = <<>>
    /\ source = "none"
    /\ invoice = DateRange(0, 0)
    /\ split_ret = <<>>
    /\ split_called = FALSE

MeterIdle ==
    /\ meter_values = <<>>
    /\ values = <<>>
    /\ measured_dates = <<>>
    /\ current_row = 0
    /\ sheet = <<>>
    /\ query = <<>>
    /\ answer = [kind |-> "none"]
    /\ add_called = FALSE

ConsumptionIdle ==
    /\ cb_query = <<>>
    /\ cb_value = [kind |-> "none"]
    /\ cb_range = <<>>
    /\ cb_consumption = [kind |-> "none"]

CopyIdle ==
    /\ heap = Heap(<<>>, <<>>)
    /\ ret_refs = <<>>
    /\ heap_returned = <<>>
    /\ touched = <<>>

ReaderIdle ==
    /\ appartements = <<>>
    /\ input_tenants = <<>>
    /\ appartement_name = ""
    /\ bill_range = DateRange(0, 0)
    /\ reader = [kind |-> "none"]

BillIdle ==
    /\ input_invoices = <<>>
    /\ input_bcis = <<>>
    /\ bill_run = <<>>

RestIdle == ConsumptionIdle /\ CopyIdle /\ ReaderIdle /\ BillIdle

\* ------------------------------------------------------------------------
\* DateRange.overlaps on any two valid ranges
\* ------------------------------------------------------------------------

OverlapsInit ==
    /\ range_a \in ValidRanges
    /\ range_b \in ValidRanges
    /\ overlaps_result = <<>>
    /\ CoverageIdle
    /\ SplitIdle
    /\ MeterIdle
    /\ RestIdle

\* a.overlaps(b) and b.overlaps(a), as testDateRangeOverlaps calls them.
Overlaps ==
    /\ overlaps_result = <<>>
    /\ overlaps_result' = << overlaps(range_a, range_b), overlaps(range_b, range_a) >>
    /\ UNCHANGED <<range_a, range_b, coverageVars, splitVars, meterVars, restVars>>

SpecOverlaps == OverlapsInit /\ [][Overlaps]_vars

\* ------------------------------------------------------------------------
\* DateCoverage
\* ------------------------------------------------------------------------

\* The last day of the calendar of the coverage runs: five days, so that a
\* tracked fragment can hold a range strictly inside it next to another
\* fragment.
MaxCoverageDay == 4

CoverageRanges ==
    { r \in [begin : 0..MaxCoverageDay, end : 0..MaxCoverageDay] : r.begin <= r.end }

\* DateCoverage.__init__
CoverageInit ==
    /\ initial_range \in CoverageRanges
    /\ ranges = << initial_range >>
    /\ covered_days = {}
    /\ last_covered = <<>>
    /\ OverlapsIdle
    /\ SplitIdle
    /\ MeterIdle
    /\ RestIdle

\* DateCoverage.cover(covered)
Cover ==
    \E covered \in CoverageRanges :
        /\ ranges' = cover(ranges, covered)
        /\ covered_days' = covered_days \cup DaysOf(covered)
        /\ last_covered' = << covered >>
        /\ UNCHANGED <<initial_range, overlapsVars, splitVars, meterVars, restVars>>

SpecCoverage == CoverageInit /\ [][Cover]_vars

\* ------------------------------------------------------------------------
\* Invoice.split on a change-point list given by the caller
\* ------------------------------------------------------------------------

\* Occupant counts of the change points test_split_dates passes.
SplitCounts == {6, 7}

\* Change-point lists in non-decreasing date order (a date may repeat, as in
\* test_split_dates), the empty list included.
GivenSplitDates ==
    { s \in UNION { [1..n -> Days \X SplitCounts] : n \in 0..MaxSplits } :
        \A i \in 1..(Len(s) - 1) : s[i][1] <= s[i + 1][1] }

SplitInit ==
    /\ invoice \in ValidRanges
    /\ split_dates \in GivenSplitDates
    /\ source = "given"
    /\ tenants = <<>>
    /\ people_range = DateRange(0, 0)
    /\ split_ret = <<>>
    /\ split_called = FALSE
    /\ CoverageIdle
    /\ OverlapsIdle
    /\ MeterIdle
    /\ RestIdle

\* invoice.split(split_dates)
Split ==
    /\ ~split_called
    /\ split_ret' = split(invoice, split_dates)
    /\ split_called' = TRUE
    /\ UNCHANGED <<tenants, people_range, split_dates, source, invoice,
                   coverageVars, overlapsVars, meterVars, restVars>>

SpecSplit == SplitInit /\ [][Split]_vars

\* ------------------------------------------------------------------------
\* Invoice.split on objects, and a caller that then changes the range of one
\* returned sub-invoice in place
\* ------------------------------------------------------------------------

\* The ranges a caller writes into a sub-invoice.
NewRanges == { DateRange(0, 0), DateRange(MaxDay, MaxDay) }

SplitCopyInit ==
    /\ invoice \in ValidRanges
    /\ split_dates \in GivenSplitDates
    /\ source = "given"
    /\ tenants = <<>>
    /\ people_range = DateRange(0, 0)
    /\ split_ret = <<>>
    /\ split_called = FALSE
    /\ heap = Heap(<< 1 >>, << invoice >>)
    /\ ret_refs = <<>>
    /\ heap_returned = <<>>
    /\ touched = <<>>
    /\ ConsumptionIdle
    /\ ReaderIdle
    /\ BillIdle
    /\ CoverageIdle
    /\ OverlapsIdle
    /\ MeterIdle

\* ret = invoice.split(split_dates) on Invoice object 1
SplitCopy ==
    /\ ~split_called
    /\ LET done == heap_split(heap, 1, split_dates)
       IN  /\ heap' = done.heap
           /\ ret_refs' = done.ret
           /\ heap_returned' = << done.heap >>
    /\ split_ret' = split(invoice, split_dates)
    /\ split_called' = TRUE
    /\ UNCHANGED <<tenants, people_range, split_dates, source, invoice, touched,
                   consumptionVars, readerVars, billVars,
                   coverageVars, overlapsVars, meterVars>>

\* ret[k][0].range.begin = r.begin; ret[k][0].range.end = r.end
ChangeSubInvoiceRange ==
    \E k \in 1..Len(ret_refs), r \in NewRanges :
        /\ split_called
        /\ touched = <<>>
        /\ heap' = set_range_end(set_range_begin(heap, ret_refs[k].invoice, r.begin),
                                 ret_refs[k].invoice, r.end)
        /\ touched' = << k >>
        /\ UNCHANGED <<ret_refs, heap_returned, splitVars,
                       consumptionVars, readerVars, billVars,
                   coverageVars, overlapsVars, meterVars>>

SplitCopyNext == SplitCopy \/ ChangeSubInvoiceRange

SpecSplitCopy == SplitCopyInit /\ [][SplitCopyNext]_vars

\* ------------------------------------------------------------------------
\* get_people_count_changes, and Invoice.split on its result
\* ------------------------------------------------------------------------

\* People per tenancy record.
PeopleValues == {1, 2}

\* Tenancy records: moved in on a day of the calendar and either still
\* resident (moving_out None) or moved out on the same or a later day.
Tenancies ==
    { Tenant(i, o, p) : i \in Days, o \in {<<>>} \cup { <<d>> : d \in Days },
                         p \in PeopleValues }

ValidTenancies == { t \in Tenancies : t.moving_out # <<>> => t.moving_in <= t.moving_out[1] }

\* A rank used only to list each collection of tenancy records once: the
\* sum over tenants does not depend on their order in the list.
TenantRank(t) ==
    (t.moving_in * (MaxDay + 2)
        + (IF t.moving_out = <<>> THEN MaxDay + 1 ELSE t.moving_out[1])) * 3 + t.people

TenantLists ==
    { s \in UNION { [1..n -> ValidTenancies] : n \in 0..MaxTenants } :
        \A i \in 1..(Len(s) - 1) : TenantRank(s[i]) <= TenantRank(s[i + 1]) }

\* The ranges the change points are computed for: they begin on day 0 or on
\* day 1, so that an invoice can begin before, with or after them.
PeopleRanges == { r \in ValidRanges : r.begin <= 1 }

OccupancyInit ==
    /\ tenants \in TenantLists
    /\ people_range \in PeopleRanges
    /\ split_dates = <<>>
    /\ source = "none"
    /\ invoice = DateRange(0, 0)
    /\ split_ret = <<>>
    /\ split_called = FALSE
    /\ CoverageIdle
    /\ OverlapsIdle
    /\ MeterIdle
    /\ RestIdle

\* split_dates = get_people_count_changes(people_range, tenants)
GetPeopleCountChanges ==
    /\ source = "none"
    /\ split_dates' = get_people_count_changes(people_range, tenants)
    /\ source' = "aggregator"
    /\ UNCHANGED <<tenants, people_range, invoice, split_ret, split_called,
                   coverageVars, overlapsVars, meterVars, restVars>>

\* invoice.split(split_dates) for an invoice the input reader keeps: one
\* whose range overlaps the range the change points were computed for.
SplitByOccupancy ==
    /\ source = "aggregator"
    /\ ~split_called
    /\ \E r \in ValidRanges :
        /\ overlaps(r, people_range)
        /\ invoice' = r
        /\ split_ret' = split(r, split_dates)
    /\ split_called' = TRUE
    /\ UNCHANGED <<tenants, people_range, split_dates, source,
                   coverageVars, overlapsVars, meterVars, restVars>>

OccupancyNext == GetPeopleCountChanges \/ SplitByOccupancy

SpecOccupancy == OccupancyInit /\ [][OccupancyNext]_vars

\* ------------------------------------------------------------------------
\* MeterManager and the meter-value sheet
\* ------------------------------------------------------------------------

\* The meter the manager is built for, and another one in the same input.
MeterName == "Name"

\* The dates of test_get_meter_value as days since 01.01.2020:
\* 01.01.2020, 15.01.2020, 01.02.2020 and 01.03.2020.
MeterDates == {0, 14, 31, 60}

\* Readings in tenths of a unit: 15,6 on 01.01.2020, 55,6 on 01.02.2020 and
\* 100 on 01.03.2020 as in the test, one more on 15.01.2020, and readings of
\* the other meter on 15.01.2020 and 01.02.2020.
Readings ==
    { MeterValue("Name", <<156>>, 0, ""), MeterValue("Name", <<320>>, 14, ""),
      MeterValue("Name", <<556>>, 31, ""), MeterValue("Name", <<1000>>, 60, "") }
    \cup { MeterValue("Other Name", <<10000>>, d, "") : d \in {14, 31} }

\* Input lists of distinct readings, in any order.
MeterValueLists ==
    { s \in UNION { [1..n -> Readings] : n \in 0..MaxReadings } :
        \A i, j \in 1..Len(s) : i # j => s[i] # s[j] }

\* MeterManager.__init__(meter_values, "Name"), and a fresh ResultSheetWriter
\* whose next meter-value row is 2.
MeterInit ==
    /\ meter_values \in MeterValueLists
    /\ values = init_values(meter_values, MeterName)
    /\ measured_dates = sorted(DOMAIN init_values(meter_values, MeterName))
    /\ current_row = 2
    /\ sheet = <<>>
    /\ query = <<>>
    /\ answer = [kind |-> "none"]
    /\ add_called = FALSE
    /\ CoverageIdle
    /\ OverlapsIdle
    /\ SplitIdle
    /\ RestIdle

\* MeterManager.add_meter_value(date)
AddMeterValue ==
    \E date \in MeterDates :
        /\ values' = add_meter_value(values, MeterName, date)
        /\ add_called' = TRUE
        /\ UNCHANGED <<meter_values, measured_dates, current_row, sheet, query, answer,
                       coverageVars, overlapsVars, splitVars, restVars>>

\* The output writer places the meter value of one date in the next row of
\* the meter-value sheet (date in column B, count in column C) and the row is
\* attached with set_row.
WriteMeterValueRow ==
    \E date \in DOMAIN values :
        /\ values[date].row = <<>>
        /\ sheet' = [ r \in DOMAIN sheet \cup {current_row} |->
                        IF r = current_row
                        THEN [B |-> date, C |-> values[date].count]
                        ELSE sheet[r] ]
        /\ values' = set_row(values, date, current_row)
        /\ current_row' = current_row + 1
        /\ UNCHANGED <<meter_values, measured_dates, query, answer, add_called,
                       coverageVars, overlapsVars, splitVars, restVars>>

\* MeterManager.get_count_formula(date)
GetCountFormula ==
    \E date \in MeterDates :
        /\ query' = << date >>
        /\ answer' = get_count_formula(measured_dates, values, date)
        /\ UNCHANGED <<meter_values, values, measured_dates, current_row, sheet, add_called,
                       coverageVars, overlapsVars, splitVars, restVars>>

MeterNext == AddMeterValue \/ WriteMeterValueRow \/ GetCountFormula

SpecMeter == MeterInit /\ [][MeterNext]_vars

\* ------------------------------------------------------------------------
\* Meter lookups of both programs on the same readings: MeterManager's
\* get_count_formula and createbill.py's get_meter_value / get_consumption
\* ------------------------------------------------------------------------

MeterRanges ==
    { DateRange(p[1], p[2]) : p \in { q \in MeterDates \X MeterDates : q[1] <= q[2] } }

ConsumptionInit ==
    /\ meter_values \in MeterValueLists
    /\ values = init_values(meter_values, MeterName)
    /\ measured_dates = sorted(DOMAIN init_values(meter_values, MeterName))
    /\ current_row = 2
    /\ sheet = <<>>
    /\ query = <<>>
    /\ answer = [kind |-> "none"]
    /\ add_called = FALSE
    /\ CoverageIdle
    /\ OverlapsIdle
    /\ SplitIdle
    /\ RestIdle

\* get_meter_value(meter_values, "Name", date) on the readings of the meter
\* sorted by date, the list get_consumption passes.
GetMeterValue ==
    \E date \in MeterDates :
        /\ cb_query' = << date >>
        /\ cb_value' = cb_get_meter_value(
                           sorted_by_date(filter_by_name(meter_values, MeterName, 1)),
                           MeterName, date)
        /\ UNCHANGED <<cb_range, cb_consumption, copyVars, readerVars, billVars,
                       coverageVars, overlapsVars, splitVars, meterVars>>

\* get_consumption("Name", meter_values, range)
GetConsumption ==
    \E range \in MeterRanges :
        /\ cb_range' = << range >>
        /\ cb_consumption' = cb_get_consumption(MeterName, meter_values, range)
        /\ UNCHANGED <<cb_query, cb_value, copyVars, readerVars, billVars,
                       coverageVars, overlapsVars, splitVars, meterVars>>

ConsumptionNext == GetCountFormula \/ GetMeterValue \/ GetConsumption

SpecConsumption == ConsumptionInit /\ [][ConsumptionNext]_vars

\* ------------------------------------------------------------------------
\* InputSheetReader: resolving the tenant of the bill
\* ------------------------------------------------------------------------

\* The apartment rows: the billed apartment A1 and another one, with sizes.
Appartements == << Appartement("A1", 50), Appartement("A2", 70) >>

\* Tenant rows: any tenancy of the billed apartment A1, open-ended tenancies
\* of the other apartment.
InputTenants ==
    { ApartmentTenant("A1", t.moving_in, t.moving_out, 1) :
        t \in { v \in ValidTenancies : v.people = 1 } }
    \cup { ApartmentTenant("A2", d, <<>>, 1) : d \in Days }

InputTenantLists == UNION { [1..n -> InputTenants] : n \in 0..MaxTenants }

ReaderInit ==
    /\ appartements \in { Appartements, Tail(Appartements) }
    /\ input_tenants \in InputTenantLists
    /\ appartement_name = "A1"
    /\ bill_range \in ValidRanges
    /\ reader = [kind |-> "none"]
    /\ ConsumptionIdle
    /\ CopyIdle
    /\ BillIdle
    /\ CoverageIdle
    /\ OverlapsIdle
    /\ SplitIdle
    /\ MeterIdle

\* InputSheetReader(path, appartement_name, bill_range)
ReadInputSheet ==
    /\ reader.kind = "none"
    /\ reader' = read_tenant(appartements, input_tenants, appartement_name, bill_range)
    /\ UNCHANGED <<appartements, input_tenants, appartement_name, bill_range,
                   consumptionVars, copyVars, billVars,
                   coverageVars, overlapsVars, splitVars, meterVars>>

SpecReader == ReaderInit /\ [][ReadInputSheet]_vars

\* ------------------------------------------------------------------------
\* createbill.main: one bill for apartment A1
\* ------------------------------------------------------------------------

MaxInvoices == 2

MaxBcis == 2

\* The lists of at most n distinct rows of a table, in any order.
ListsOf(rows, n) ==
    { l \in UNION { [1..k -> rows] : k \in 0..n } :
        \A i, j \in 1..Len(l) : i # j => l[i] # l[j] }

\* One tenant of the billed apartment, and tenants of the other apartment,
\* one of them moving in on day 2.
BillTenants ==
    { ApartmentTenant("A1", 0, <<>>, 1), ApartmentTenant("A2", 0, <<>>, 2),
      ApartmentTenant("A2", 2, <<>>, 2) }

BillRanges == { DateRange(1, 2), DateRange(1, MaxDay), DateRange(0, MaxDay) }

BillInvoices ==
    { InvoiceRow("Strom", DateRange(0, 1)), InvoiceRow("Strom", DateRange(1, MaxDay)),
      InvoiceRow("Strom", DateRange(0, MaxDay)), InvoiceRow("Wasser", DateRange(0, 2)) }

KnownSplits ==
    { "Pro Wohnung", "Pro Person", "Pro Quadratmeter", "Nach Verbrauch",
      "Haelfte", "Drittel", "Viertel", "Komplett" }

Bcis ==
    { BillCalculationItem("A1", "Pro Person", "Strom", ""),
      BillCalculationItem("A1", "Nach Verbrauch", "Wasser", "Name"),
      BillCalculationItem("A1", "Komplett", "Strom", ""),
      BillCalculationItem("A1", "Unbekannt", "Strom", ""),
      BillCalculationItem("A2", "Pro Person", "Strom", "") }

\* Readings of the water meter on day 1 and on the last day.
BillMeterValues ==
    << MeterValue("Name", <<320>>, 1, ""), MeterValue("Name", <<1000>>, MaxDay, "") >>

BillInit ==
    /\ appartements = Appartements
    /\ input_tenants \in ListsOf(BillTenants, MaxTenants)
    /\ appartement_name = "A1"
    /\ bill_range \in BillRanges
    /\ reader = [kind |-> "none"]
    /\ input_invoices \in ListsOf(BillInvoices, MaxInvoices)
    /\ input_bcis \in ListsOf(Bcis, MaxBcis)
    /\ bill_run = <<>>
    /\ meter_values = BillMeterValues
    /\ values = <<>>
    /\ measured_dates = <<>>
    /\ current_row = 0
    /\ sheet = <<>>
    /\ query = <<>>
    /\ answer = [kind |-> "none"]
    /\ add_called = FALSE
    /\ ConsumptionIdle
    /\ CopyIdle
    /\ CoverageIdle
    /\ OverlapsIdle
    /\ SplitIdle

\* main(args) with args.begin, args.end = bill_range, args.appartement = A1
CreateBill ==
    /\ bill_run = <<>>
    /\ bill_run' = << main(input_invoices, appartements, input_tenants, meter_values,
                           input_bcis, bill_range, appartement_name) >>
    /\ UNCHANGED <<input_invoices, input_bcis, readerVars, consumptionVars, copyVars,
                   coverageVars, overlapsVars, splitVars, meterVars>>

SpecBill == BillInit /\ [][CreateBill]_vars

\* ------------------------------------------------------------------------
\* Properties of DateRange.overlaps
\* ------------------------------------------------------------------------

\* C6: for valid ranges a and b, a.overlaps(b) and b.overlaps(a) are both
\* true exactly when a and b share at least one day (so false both ways for
\* disjoint pairs, true both ways for partial overlap and for strict
\* containment): overlaps is symmetric.
C6_OverlapsIffShareDay ==
    overlaps_result # <<>> =>
        /\ overlaps_result[1] = (DaysOf(range_a) \cap DaysOf(range_b) # {})
        /\ overlaps_result[2] = (DaysOf(range_a) \cap DaysOf(range_b) # {})

\* a strictly contains b, and both calls returned True.
C6_Witness ==
    /\ overlaps_result = << TRUE, TRUE >>
    /\ range_a.begin < range_b.begin
    /\ range_b.end < range_a.end

\* ------------------------------------------------------------------------
\* Properties of DateCoverage
\* ------------------------------------------------------------------------

\* The days held by the tracked fragments.
TrackedDays == UNION { DaysOf(ranges[i]) : i \in 1..Len(ranges) }

\* C3: right after cover(c) with a valid c, no tracked fragment overlaps c
\* (in either direction of DateRange.overlaps, and as sets of days), whatever
\* cover calls came before.
C3_NoFragmentOverlapsCovered ==
    last_covered # <<>> =>
        \A i \in 1..Len(ranges) :
            /\ ~overlaps(ranges[i], last_covered[1])
            /\ ~overlaps(last_covered[1], ranges[i])
            /\ DaysOf(ranges[i]) \cap DaysOf(last_covered[1]) = {}

\* The last cover call came after an earlier one that covered other days,
\* and left a fragment ending the day before c and one beginning the day
\* after c.
C3_Witness ==
    /\ last_covered # <<>>
    /\ covered_days # DaysOf(last_covered[1])
    /\ \E i \in 1..Len(ranges) : ranges[i].end = yesterday(last_covered[1].begin)
    /\ \E j \in 1..Len(ranges) : ranges[j].begin = tomorrow(last_covered[1].end)

\* C4: after DateCoverage(ref) and any cover calls, the days held by the
\* tracked fragments are exactly the days of ref that lie in none of the
\* covered ranges.
C4_TrackedDaysAreUncoveredDays ==
    TrackedDays = DaysOf(initial_range) \ covered_days

\* Some days of ref were covered, some remain, in two or more fragments.
C4_Witness ==
    /\ covered_days \cap DaysOf(initial_range) # {}
    /\ DaysOf(initial_range) \ covered_days # {}
    /\ Len(ranges) >= 2

\* C5: in every reachable coverage state and for every valid c, cover(c)
\* called twice in a row leaves the same fragment list as cover(c) once.
C5_CoverIdempotent ==
    \A c \in CoverageRanges : cover(cover(ranges, c), c) = cover(ranges, c)

\* A state reached by cover calls, with two or more fragments, in which a
\* further cover call still changes the list.
C5_Witness ==
    /\ last_covered # <<>>
    /\ Len(ranges) >= 2
    /\ \E c \in CoverageRanges : cover(ranges, c) # ranges

\* ------------------------------------------------------------------------
\* Properties of Invoice.split
\* ------------------------------------------------------------------------

\* C1: for an invoice with range [B, E] and a non-empty change-point list
\* in ascending date order, the returned sub-invoices, in order, are
\* contiguous, do not overlap and reconstruct [B, E]: the first begins on B,
\* the last ends on E, each following one begins the day after the previous
\* one ends, no day lies in two of them and their days are those of [B, E].
C1_SplitReconstructsRange ==
    (split_called /\ source = "given" /\ split_dates # <<>>) =>
        /\ Len(split_ret) >= 1
        /\ split_ret[1].range.begin = invoice.begin
        /\ split_ret[Len(split_ret)].range.end = invoice.end
        /\ \A i \in 1..(Len(split_ret) - 1) :
               split_ret[i + 1].range.begin = tomorrow(split_ret[i].range.end)
        /\ \A i, j \in 1..Len(split_ret) :
               i # j => DaysOf(split_ret[i].range) \cap DaysOf(split_ret[j].range) = {}
        /\ UNION { DaysOf(split_ret[i].range) : i \in 1..Len(split_ret) } = DaysOf(invoice)

\* A split into three or more sub-invoices, from a list that also holds a
\* change point dated before B.
C1_Witness ==
    /\ split_called
    /\ source = "given"
    /\ Len(split_ret) >= 3
    /\ \E i \in 1..Len(split_dates) : split_dates[i][1] < invoice.begin

\* The occupant count of a day: the sum of people over the tenants whose
\* tenancy [moving_in, moving_out], open-ended when moving_out is None,
\* holds the day.
RECURSIVE OccupantCountFrom(_, _, _)
OccupantCountFrom(ts, d, i) ==
    IF i > Len(ts)
    THEN 0
    ELSE (IF ts[i].moving_in <= d /\ (ts[i].moving_out = <<>> \/ d <= ts[i].moving_out[1])
          THEN ts[i].people
          ELSE 0) + OccupantCountFrom(ts, d, i + 1)

OccupantCount(ts, d) == OccupantCountFrom(ts, d, 1)

\* C2: when the change points are get_people_count_changes(R, tenants) and
\* the invoice's range lies inside R, every returned sub-invoice is tagged
\* with the occupant count that holds on every day of its range.
C2_SubInvoiceTaggedWithItsCount ==
    (split_called /\ source = "aggregator" /\ contains_range(people_range, invoice)) =>
        /\ Len(split_ret) >= 1
        /\ \A i \in 1..Len(split_ret) :
               \A d \in DaysOf(split_ret[i].range) :
                   split_ret[i].people_count = OccupantCount(tenants, d)

\* An invoice inside R, beginning after R does, split into two or more
\* sub-invoices with different tags.
C2_Witness ==
    /\ split_called
    /\ source = "aggregator"
    /\ contains_range(people_range, invoice)
    /\ people_range.begin < invoice.begin
    /\ Len(split_ret) >= 2
    /\ split_ret[1].people_count # split_ret[2].people_count

\* ------------------------------------------------------------------------
\* Properties of get_people_count_changes
\* ------------------------------------------------------------------------

\* The indices of the change points dated on or before d.
ChangesUpTo(changes, d) == { i \in 1..Len(changes) : changes[i][1] <= d }

LastIndex(S) == CHOOSE i \in S : \A j \in S : j <= i

ChangeDates(changes) == { changes[i][1] : i \in 1..Len(changes) }

\* C7: for every day d of the range, the count of the last returned change
\* point dated on or before d is the occupant count of d.
C7_LastChangePointGivesCount ==
    source = "aggregator" =>
        \A d \in DaysOf(people_range) :
            /\ ChangesUpTo(split_dates, d) # {}
            /\ split_dates[LastIndex(ChangesUpTo(split_dates, d))][2]
                   = OccupantCount(tenants, d)

\* Two tenants, one of them open-ended, and three or more change points.
C7_Witness ==
    /\ source = "aggregator"
    /\ Len(tenants) = 2
    /\ \E i \in 1..Len(tenants) : tenants[i].moving_out = <<>>
    /\ \E i \in 1..Len(tenants) : tenants[i].moving_out # <<>>
    /\ Len(split_dates) >= 3

\* C8 as stated: the list is strictly increasing by date, its dates lie in
\* the range, a day is in it exactly when its occupant count differs from
\* the previous day's, and consecutive change points differ in count.
C8_Original ==
    source = "aggregator" =>
        /\ \A i \in 1..(Len(split_dates) - 1) : split_dates[i][1] < split_dates[i + 1][1]
        /\ ChangeDates(split_dates) \subseteq DaysOf(people_range)
        /\ \A d \in DaysOf(people_range) :
               (d \in ChangeDates(split_dates))
                   <=> (OccupantCount(tenants, d) # OccupantCount(tenants, yesterday(d)))
        /\ \A i \in 1..(Len(split_dates) - 1) : split_dates[i][2] # split_dates[i + 1][2]

\* C8, amended: the list is strictly increasing by date, its dates lie in
\* the range, the first day of the range is always in it, a later day of the
\* range is in it exactly when its occupant count differs from the previous
\* day's, and consecutive change points differ in count.
C8_ChangePointsAtChanges ==
    source = "aggregator" =>
        /\ \A i \in 1..(Len(split_dates) - 1) : split_dates[i][1] < split_dates[i + 1][1]
        /\ ChangeDates(split_dates) \subseteq DaysOf(people_range)
        /\ people_range.begin \in ChangeDates(split_dates)
        /\ \A d \in DaysOf(people_range) \ {people_range.begin} :
               (d \in ChangeDates(split_dates))
                   <=> (OccupantCount(tenants, d) # OccupantCount(tenants, yesterday(d)))
        /\ \A i \in 1..(Len(split_dates) - 1) : split_dates[i][2] # split_dates[i + 1][2]

\* The first day of the range has the same occupant count as the day before
\* it, a later day changes the count, and another later day does not.
C8_Witness ==
    /\ source = "aggregator"
    /\ OccupantCount(tenants, people_range.begin)
           = OccupantCount(tenants, yesterday(people_range.begin))
    /\ OccupantCount(tenants, people_range.begin) > 0
    /\ Len(split_dates) >= 2
    /\ Cardinality(DaysOf(people_range)) > Len(split_dates)

\* ------------------------------------------------------------------------
\* Properties of MeterManager
\* ------------------------------------------------------------------------

\* The dates on which the input holds a reading of the manager's meter.
MeasuredDates ==
    { meter_values[i].date :
        i \in { k \in 1..Len(meter_values) : meter_values[k].name = MeterName } }

\* The measured reading of the manager's meter on a measured date.
MeasuredCount(d) ==
    LET i == CHOOSE k \in 1..Len(meter_values) :
                 meter_values[k].name = MeterName /\ meter_values[k].date = d
    IN  meter_values[i].count[1]

GreatestBefore(d) ==
    CHOOSE b \in MeasuredDates : b < d /\ \A m \in MeasuredDates : m < d => m <= b

LeastAfter(d) ==
    CHOOSE a \in MeasuredDates : a > d /\ \A m \in MeasuredDates : m > d => a <= m

HasBracket(d) ==
    /\ d \notin MeasuredDates
    /\ \E m \in MeasuredDates : m < d
    /\ \E m \in MeasuredDates : m > d

\* The value a formula expresses on the sheet, as the fraction num / den:
\* C{base} + (C{dv1} - C{dv2}) / DAYS(B{dt1}, B{dt2}) * DAYS(B{dn1}, B{dn2}).
FormulaValue(f, sh) ==
    LET total == xlfn_days(sh[f.delta_days_total[1]].B, sh[f.delta_days_total[2]].B)
        new   == xlfn_days(sh[f.delta_days_new[1]].B, sh[f.delta_days_new[2]].B)
        delta == sh[f.delta_value[1]].C[1] - sh[f.delta_value[2]].C[1]
    IN  [num |-> sh[f.base].C[1] * total + delta * new, den |-> total]

\* C9: for a query date d with bracketing readings on b < d < a, the value
\* the returned formula expresses is
\*   value(b) + (value(a) - value(b)) / (a - b) * (d - b)
\* with a - b and d - b plain day differences; readings 15,6 on 01.01.2020
\* and 55,6 on 01.02.2020 give 15,6 + 40/31 * 14 for 15.01.2020.
C9_FormulaIsLinearInterpolation ==
    (query # <<>> /\ answer.kind = "formula" /\ HasBracket(query[1])) =>
        LET d  == query[1]
            b  == GreatestBefore(d)
            a  == LeastAfter(d)
            vb == MeasuredCount(b)
            va == MeasuredCount(a)
            v  == FormulaValue(answer.formula, sheet)
        IN  /\ v.den # 0
            /\ v.num * (a - b) = (vb * (a - b) + (va - vb) * (d - b)) * v.den
            /\ (b = 0 /\ a = 31 /\ d = 14) =>
                   v.num * 31 = (156 * 31 + (556 - 156) * 14) * v.den

\* The example of the claim: readings on 01.01.2020 and 01.02.2020, a
\* formula returned for 15.01.2020.
C9_Witness ==
    /\ query = << 14 >>
    /\ answer.kind = "formula"
    /\ HasBracket(14)
    /\ GreatestBefore(14) = 0
    /\ LeastAfter(14) = 31

\* C10: for a query date d that is not measured and lies strictly between
\* the earliest and the latest measured date, the bracket used is (before,
\* after) with before the greatest measured date < d and after the least
\* measured date > d, so no measured reading lies strictly between them;
\* neither end is a date of another meter's reading only or a placeholder
\* date added through add_meter_value.
C10_BracketIsTightestMeasured ==
    (query # <<>> /\ HasBracket(query[1])) =>
        /\ answer.kind \in {"formula", "AttributeError", "KeyError"}
        /\ answer.before = GreatestBefore(query[1])
        /\ answer.after = LeastAfter(query[1])
        /\ answer.before < query[1]
        /\ query[1] < answer.after
        /\ \A m \in MeasuredDates : ~(answer.before < m /\ m < answer.after)
        /\ {answer.before, answer.after} \subseteq MeasuredDates

\* A query whose bracket spans a placeholder date added through
\* add_meter_value, which is also the date of another meter's reading.
C10_Witness ==
    /\ query # <<>>
    /\ HasBracket(query[1])
    /\ \E p \in DOMAIN values :
        /\ p \notin MeasuredDates
        /\ p # query[1]
        /\ answer.before < p
        /\ p < answer.after
        /\ \E i \in 1..Len(meter_values) :
               meter_values[i].date = p /\ meter_values[i].name # MeterName


\* ------------------------------------------------------------------------
\* C11, C16: lookups outside and inside the readings
\* ------------------------------------------------------------------------

EarlierThanEveryReading(d) == MeasuredDates # {} /\ \A m \in MeasuredDates : d < m

LaterThanEveryReading(d) == MeasuredDates # {} /\ \A m \in MeasuredDates : d > m

\* C11: a lookup for a date earlier than every reading of the meter raises
\* MeterValueException "no reading before", a lookup for a date later than
\* every reading raises MeterValueException "no reading after", in
\* MeterManager.get_count_formula and in createbill's get_meter_value alike;
\* neither returns a formula or an estimated MeterValue for such a date.
C11_LookupOutsideReadingsRaises ==
    /\ (query # <<>> /\ EarlierThanEveryReading(query[1])) =>
           answer = [kind |-> "MeterValueException", error |-> "no reading before"]
    /\ (query # <<>> /\ LaterThanEveryReading(query[1])) =>
           answer = [kind |-> "MeterValueException", error |-> "no reading after"]
    /\ (cb_query # <<>> /\ EarlierThanEveryReading(cb_query[1])) =>
           cb_value = [kind |-> "MeterValueException", error |-> "no reading before"]
    /\ (cb_query # <<>> /\ LaterThanEveryReading(cb_query[1])) =>
           cb_value = [kind |-> "MeterValueException", error |-> "no reading after"]

\* Readings on 15.01.2020 and 01.02.2020 only; the manager was asked for
\* 01.03.2020 and createbill's lookup for 01.01.2020.
C11_Witness ==
    /\ MeasuredDates = {14, 31}
    /\ query = << 60 >>
    /\ answer.kind = "MeterValueException"
    /\ cb_query = << 0 >>
    /\ cb_value.kind = "MeterValueException"

\* The value of a count createbill.py writes, as the fraction num / den.
CountValue(count) ==
    IF count.op = "number"
    THEN [num |-> count.value, den |-> 1]
    ELSE [num |-> (count.end_count - count.start_count)
                      * xlfn_days(count.date, count.start_date),
          den |-> xlfn_days(count.end_date, count.start_date)]

\* reading(d): the measured value on d, else the linear interpolation
\* between the bracketing readings, as the fraction num / den.
Reading(d) ==
    IF d \in MeasuredDates
    THEN [num |-> MeasuredCount(d), den |-> 1]
    ELSE LET b == GreatestBefore(d)
             a == LeastAfter(d)
         IN  [num |-> MeasuredCount(b) * (a - b)
                          + (MeasuredCount(a) - MeasuredCount(b)) * (d - b),
              den |-> a - b]

Known(d) == d \in MeasuredDates \/ HasBracket(d)

\* C16: the quantity get_consumption returns for a range is
\* reading(end) - reading(begin).
C16_Original ==
    (cb_range # <<>> /\ cb_consumption.kind = "consumption"
        /\ Known(cb_range[1].begin) /\ Known(cb_range[1].end)) =>
        LET hi == CountValue(cb_consumption.minuend)
            lo == CountValue(cb_consumption.subtrahend)
            re == Reading(cb_range[1].end)
            rb == Reading(cb_range[1].begin)
        IN  (hi.num * lo.den - lo.num * hi.den) * (re.den * rb.den)
                = (re.num * rb.den - rb.num * re.den) * (hi.den * lo.den)


\* ------------------------------------------------------------------------
\* C12: add_meter_value
\* ------------------------------------------------------------------------

\* C12: in every state of the manager and for every date, add_meter_value
\* leaves values unchanged when the date has an entry (measured or added
\* before, with or without a row); otherwise it inserts exactly one entry,
\* for that date, with count None and note 'Berechnet', and changes no other
\* entry; a second call changes nothing.
C12_AddMeterValueIdempotent ==
    \A date \in MeterDates :
        LET once  == add_meter_value(values, MeterName, date)
            twice == add_meter_value(once, MeterName, date)
        IN  /\ date \in DOMAIN values => once = values
            /\ date \notin DOMAIN values =>
                   /\ DOMAIN once = DOMAIN values \cup {date}
                   /\ once[date].name = MeterName
                   /\ once[date].count = <<>>
                   /\ once[date].date = date
                   /\ once[date].notes = "Berechnet"
                   /\ \A d \in DOMAIN values : once[d] = values[d]
            /\ twice = once

\* A measured reading with its row, a placeholder added for 15.01.2020 and a
\* date that has no entry yet.
C12_Witness ==
    /\ 0 \in DOMAIN values
    /\ values[0].count = <<156>>
    /\ values[0].row # <<>>
    /\ 14 \in DOMAIN values
    /\ values[14].count = <<>>
    /\ values[14].notes = "Berechnet"
    /\ 31 \notin DOMAIN values


\* ------------------------------------------------------------------------
\* C13: the number of sub-invoices
\* ------------------------------------------------------------------------

StrictlyIncreasing(dates) ==
    \A i \in 1..(Len(dates) - 1) : dates[i][1] < dates[i + 1][1]

\* C13: split returns no sub-invoice for an empty list; for a non-empty list
\* of strictly increasing dates and an invoice over [B, E] it returns
\* 1 + #{ change points d : B < d <= E } sub-invoices, none of them reaching
\* past E, and when E > B is a change point the last one is [E, E].
C13_SubInvoiceCount ==
    split_called =>
        /\ split_dates = <<>> => split_ret = <<>>
        /\ (split_dates # <<>> /\ StrictlyIncreasing(split_dates)) =>
               LET inside == { i \in 1..Len(split_dates) :
                                 /\ invoice.begin < split_dates[i][1]
                                 /\ split_dates[i][1] <= invoice.end }
               IN  /\ Len(split_ret) = 1 + Cardinality(inside)
                   /\ \A k \in 1..Len(split_ret) : split_ret[k].range.end <= invoice.end
                   /\ (invoice.begin < invoice.end
                         /\ \E i \in 1..Len(split_dates) : split_dates[i][1] = invoice.end) =>
                          split_ret[Len(split_ret)].range = DateRange(invoice.end, invoice.end)

\* An invoice over [1, 2] split at change points on its first day, on its
\* last day and behind its end.
C13_Witness ==
    /\ split_called
    /\ invoice = DateRange(1, 2)
    /\ Len(split_dates) = 3
    /\ split_dates[1][1] = 1
    /\ split_dates[2][1] = 2
    /\ split_dates[3][1] = 3
    /\ Len(split_ret) = 2


\* ------------------------------------------------------------------------
\* C14: split copies
\* ------------------------------------------------------------------------

\* C14: after split the invoice it was called on still has the range it had,
\* the returned sub-invoices are new Invoice objects with DateRange objects
\* of their own (none is the original's, no two are the same object) whose
\* fields are the ranges split computes; and after the range of one
\* sub-invoice was changed in place the original invoice and every other
\* sub-invoice still have the range they had when split returned.
C14_SplitCopiesAreIndependent ==
    split_called =>
        /\ range_of(heap, 1) = invoice
        /\ Len(ret_refs) = Len(split_ret)
        /\ \A k \in 1..Len(ret_refs) :
               /\ ret_refs[k].invoice # 1
               /\ heap.inv_range[ret_refs[k].invoice] # heap.inv_range[1]
               /\ range_of(heap_returned[1], ret_refs[k].invoice) = split_ret[k].range
               /\ ret_refs[k].people_count = split_ret[k].people_count
               /\ \A j \in 1..Len(ret_refs) :
                      j # k =>
                          /\ ret_refs[j].invoice # ret_refs[k].invoice
                          /\ heap.inv_range[ret_refs[j].invoice]
                                 # heap.inv_range[ret_refs[k].invoice]
        /\ touched # <<>> =>
               \A j \in 1..Len(ret_refs) :
                   j # touched[1] =>
                       range_of(heap, ret_refs[j].invoice)
                           = range_of(heap_returned[1], ret_refs[j].invoice)

\* An invoice over [0, 3] was split in three and the range of the second
\* sub-invoice was then changed.
C14_Witness ==
    /\ split_called
    /\ invoice = DateRange(0, MaxDay)
    /\ Len(ret_refs) = 3
    /\ touched = << 2 >>
    /\ range_of(heap, ret_refs[2].invoice) # range_of(heap_returned[1], ret_refs[2].invoice)


\* ------------------------------------------------------------------------
\* C19: the tenant of the bill
\* ------------------------------------------------------------------------

\* C19: when no tenant row of the billed apartment contains both the first
\* and the last day of the bill period the reader raises InputFileError;
\* when the reader succeeds its tenant is a row of the billed apartment
\* whose tenancy contains the first and the last day of the bill period.
C19_TenantCoversBillPeriod ==
    reader.kind # "none" =>
        /\ (~ \E i \in 1..Len(input_tenants) :
                  /\ input_tenants[i].appartement = appartement_name
                  /\ tenant_contains(input_tenants[i], bill_range.begin)
                  /\ tenant_contains(input_tenants[i], bill_range.end))
               => reader.kind = "InputFileError"
        /\ reader.kind = "InputSheetReader" =>
               /\ \E i \in 1..Len(input_tenants) : input_tenants[i] = reader.tenant
               /\ reader.tenant.appartement = appartement_name
               /\ tenant_contains(reader.tenant, bill_range.begin)
               /\ tenant_contains(reader.tenant, bill_range.end)

\* A tenant of the other apartment covers the whole period and is listed
\* first; the tenant of the billed apartment moved out before its end: the
\* reader has raised InputFileError.
C19_Witness ==
    /\ reader.kind = "InputFileError"
    /\ bill_range = DateRange(1, 2)
    /\ input_tenants = << ApartmentTenant("A2", 0, <<>>, 1),
                          ApartmentTenant("A1", 0, << 1 >>, 1) >>
    /\ appartements = Appartements


\* ------------------------------------------------------------------------
\* C15, C17, C18, C20: the line items createbill.main writes
\* ------------------------------------------------------------------------

Written == bill_run[1].written

\* The tenants of the billed apartment living there on the bill's first day.
BilledTenants ==
    { input_tenants[i] : i \in { k \in 1..Len(input_tenants) :
        /\ input_tenants[k].appartement = appartement_name
        /\ tenant_contains(input_tenants[k], bill_range.begin) } }

\* The sub-invoices the invoice of a line item is split in.
SubInvoicesOf(w) ==
    split_invoice_where_person_count_changes(
        get_people_count_change_dates(input_tenants, bill_range),
        input_invoices[w.origin[2]].range, input_invoices[w.origin[2]].range)

\* C15: every 'Pro Person' line item has the share p / n with p the people
\* count of the tenant living in the billed apartment on the bill's first
\* day and n the occupant count of the sub-invoice it bills.
C15_Original ==
    (bill_run # <<>> /\ BilledTenants # {}) =>
        \A k \in 1..Len(Written) :
            Written[k].bill_item.share_name = "Pro Person" =>
                /\ \A t \in BilledTenants : Written[k].bill_item.share_percentage.num = t.people
                /\ Written[k].bill_item.share_percentage.den
                       = SubInvoicesOf(Written[k])[Written[k].origin[3]].people_count

\* (BCI, invoice, sub-invoice) a comes before b.
OriginBefore(a, b) ==
    \/ a[1] < b[1]
    \/ a[1] = b[1] /\ a[2] < b[2]
    \/ a[1] = b[1] /\ a[2] = b[2] /\ a[3] < b[3]

\* C17: the k-th line item written is written to row k + 1, so the rows are
\* 2, 3, 4, ... without a gap or a repeat, and the line items follow each
\* other in the order of the BCI list, then of the invoice list, then of the
\* sub-invoices of the split; each carries the tag of its BCI and the type
\* of its invoice.  This holds for a run that ends with an exception as well.
C17_LineItemsInOrderOnConsecutiveRows ==
    bill_run # <<>> =>
        /\ \A k \in 1..Len(Written) :
               /\ Written[k].row = k + 1
               /\ Written[k].bill_item.days = Written[k].row
               /\ Written[k].bill_item.share_name = input_bcis[Written[k].origin[1]].split
               /\ Written[k].bill_item.type = input_invoices[Written[k].origin[2]].type
        /\ \A k \in 1..(Len(Written) - 1) :
               OriginBefore(Written[k].origin, Written[k + 1].origin)

\* A run that wrote line items of two BCIs, two invoices of one BCI and two
\* sub-invoices of one invoice.
C17_Witness ==
    /\ bill_run # <<>>
    /\ bill_run[1].raised = <<>>
    /\ \E a, b, c, d \in 1..Len(Written) :
           /\ Written[a].origin[1] # Written[b].origin[1]
           /\ Written[c].origin[1] = Written[d].origin[1]
           /\ Written[c].origin[2] # Written[d].origin[2]
    /\ \E a, b \in 1..Len(Written) :
           /\ Written[a].origin[1] = Written[b].origin[1]
           /\ Written[a].origin[2] = Written[b].origin[2]
           /\ Written[a].origin[3] # Written[b].origin[3]

\* C18: a BCI of the billed apartment with an unknown tag makes main end with
\* an exception, and no line item of that BCI is written.
C18_Original ==
    bill_run # <<>> =>
        \A i \in 1..Len(input_bcis) :
            (input_bcis[i].appartement = appartement_name
                /\ input_bcis[i].split \notin KnownSplits) =>
                /\ bill_run[1].raised # <<>>
                /\ \A k \in 1..Len(Written) : Written[k].origin[1] # i

\* Column A (range.begin) and column B (range.end) of a row of the sheet.
DetailsA(row) ==
    LET k == CHOOSE n \in 1..Len(Written) : Written[n].row = row
    IN  Written[k].bill_item.range.begin

DetailsB(row) ==
    LET k == CHOOSE n \in 1..Len(Written) : Written[n].row = row
    IN  Written[k].bill_item.range.end

\* C20: the day count of a line item, the value of its formula
\* _xlfn.days(B{row}, A{row}), is (end - begin) + 1 of its billed range, and
\* the invoice day count on it is (end - begin) + 1 of the invoice's range.
C20_Original ==
    bill_run # <<>> =>
        \A k \in 1..Len(Written) :
            LET item == Written[k].bill_item
                inv  == input_invoices[Written[k].origin[2]].range
            IN  /\ xlfn_days(DetailsB(item.days), DetailsA(item.days))
                       = (item.range.end - item.range.begin) + 1
                /\ xlfn_days(item.invoice_range_days.end, item.invoice_range_days.begin)
                       = (inv.end - inv.begin) + 1


\* ------------------------------------------------------------------------
\* C21, C28: billed ranges and occupant counts of createbill.main's items
\* ------------------------------------------------------------------------

\* The range of the invoice object a line item was built from: the
\* sub-invoice for a 'Pro Person' item, else the invoice.
BilledInvoiceRange(w) ==
    IF w.bill_item.share_name = "Pro Person"
    THEN SubInvoicesOf(w)[w.origin[3]].range
    ELSE input_invoices[w.origin[2]].range

\* C21: the billed range of every line item has begin <= end and lies
\* inside the bill range and inside the range of the (sub-)invoice it bills.
C21_Original ==
    bill_run # <<>> =>
        \A k \in 1..Len(Written) :
            LET r == Written[k].bill_item.range
                v == BilledInvoiceRange(Written[k])
            IN  /\ r.begin <= r.end
                /\ bill_range.begin <= r.begin /\ r.end <= bill_range.end
                /\ v.begin <= r.begin /\ r.end <= v.end

\* Every day of the bill range has a resident.
EveryDayOccupied ==
    \A d \in bill_range.begin..bill_range.end :
        \E i \in 1..Len(input_tenants) :
            tenant_contains(input_tenants[i], d) /\ input_tenants[i].people >= 1

\* C28: when every day of the bill range has a resident, every 'Pro Person'
\* line item has an occupant count of at least 1 as the denominator of its
\* share.
C28_Original ==
    (bill_run # <<>> /\ EveryDayOccupied) =>
        \A k \in 1..Len(Written) :
            Written[k].bill_item.share_name = "Pro Person" =>
                Written[k].bill_item.share_percentage.den >= 1


\* ------------------------------------------------------------------------
\* C22, C26, C29: DateCoverage
\* ------------------------------------------------------------------------

StrictlyInside(c, r) == r.begin < c.begin /\ c.end < r.end

\* C22: in every reachable coverage state, for every tracked fragment r and
\* every valid c strictly inside r, cover(c) puts [r.begin, c.begin - 1] and
\* [c.end + 1, r.end] in the place of r and leaves the fragments before and
\* behind r as they were; a fresh coverage of one range then has exactly
\* two fragments.
C22_MiddleCoverSplitsInTwo ==
    \A c \in CoverageRanges :
        \A i \in 1..Len(ranges) :
            StrictlyInside(c, ranges[i]) =>
                /\ cover(ranges, c) =
                       SubSeq(ranges, 1, i - 1)
                       \o << DateRange(ranges[i].begin, c.begin - 1),
                             DateRange(c.end + 1, ranges[i].end) >>
                       \o SubSeq(ranges, i + 1, Len(ranges))
                /\ last_covered = <<>> => Len(cover(ranges, c)) = 2

\* The last cover call cut a range out of the middle of a fragment, next to
\* another fragment that an earlier call had left.
C22_Witness ==
    /\ last_covered # <<>>
    /\ covered_days # DaysOf(last_covered[1])
    /\ Len(ranges) = 3
    /\ ranges[1].end = last_covered[1].begin - 1
    /\ ranges[2].begin = last_covered[1].end + 1
    /\ ranges[3].begin > ranges[2].end + 1

\* C26: in every state reached from DateCoverage(ref) by cover calls with
\* valid ranges, each tracked fragment has begin <= end and lies inside ref,
\* and no two tracked fragments share a day.
C26_FragmentsDisjointInsideRef ==
    /\ \A i \in 1..Len(ranges) :
           /\ ranges[i].begin <= ranges[i].end
           /\ initial_range.begin <= ranges[i].begin
           /\ ranges[i].end <= initial_range.end
    /\ \A i, j \in 1..Len(ranges) :
           i # j =>
               /\ DaysOf(ranges[i]) \cap DaysOf(ranges[j]) = {}
               /\ ~overlaps(ranges[i], ranges[j])

\* Days 1 and 3 of [0, MaxCoverageDay] were covered, in two calls or more:
\* three fragments are tracked.
C26_Witness ==
    /\ Len(ranges) = 3
    /\ last_covered # <<>>
    /\ initial_range = DateRange(0, MaxCoverageDay)
    /\ covered_days = {1, 3}

AscendingApart(rs) ==
    \A i \in 1..(Len(rs) - 1) : rs[i].end + 1 < rs[i + 1].begin

\* C29: from every reachable coverage state and for all valid ranges a and
\* b, cover(a) then cover(b) leaves the same fragment list as cover(b) then
\* cover(a), and that list is in ascending order with at least one day
\* between two fragments.
C29_CoverOrderIndependent ==
    \A a, b \in CoverageRanges :
        /\ cover(cover(ranges, a), b) = cover(cover(ranges, b), a)
        /\ AscendingApart(cover(cover(ranges, a), b))

\* Two cover calls were made, the second not the same as the first, and two
\* fragments remain.
C29_Witness ==
    /\ last_covered # <<>>
    /\ covered_days # DaysOf(last_covered[1])
    /\ Len(ranges) = 2
    /\ \E a, b \in CoverageRanges :
           /\ cover(ranges, a) # cover(ranges, b)
           /\ cover(cover(ranges, a), b) # cover(ranges, a)


\* ------------------------------------------------------------------------
\* C23, C25, C27: sub-invoices of Invoice.split
\* ------------------------------------------------------------------------

C27_Original ==
    (split_called /\ source = "given" /\ split_dates # <<>>) =>
        \A k \in 1..Len(split_ret) :
            /\ split_ret[k].range.begin <= split_ret[k].range.end
            /\ invoice.begin <= split_ret[k].range.begin
            /\ split_ret[k].range.end <= invoice.end

\* The change points that repeat the date of the one before them, on a day
\* after the invoice's first day and not after its last.
RepeatedInside ==
    { i \in 2..Len(split_dates) :
        /\ split_dates[i][1] = split_dates[i - 1][1]
        /\ invoice.begin < split_dates[i][1]
        /\ split_dates[i][1] <= invoice.end }

\* The sub-invoices whose range ends the day before it begins.
EmptySubInvoices ==
    { k \in 1..Len(split_ret) : split_ret[k].range.begin > split_ret[k].range.end }

\* C27, amended: for a non-empty change-point list in non-decreasing date
\* order, no sub-invoice begins before the invoice or ends after it; with
\* strictly increasing dates every sub-invoice has begin <= end; every
\* change point that repeats the date d of the one before it, with d after
\* the invoice's first day and not after its last, adds one sub-invoice
\* [d, d - 1] that holds no day, and there are no other such sub-invoices.
C27_SubInvoicesInsideInvoice ==
    (split_called /\ source = "given" /\ split_dates # <<>>) =>
        /\ \A k \in 1..Len(split_ret) :
               /\ invoice.begin <= split_ret[k].range.begin
               /\ split_ret[k].range.end <= invoice.end
               /\ split_ret[k].range.begin <= tomorrow(split_ret[k].range.end)
        /\ StrictlyIncreasing(split_dates) => EmptySubInvoices = {}
        /\ Cardinality(EmptySubInvoices) = Cardinality(RepeatedInside)
        /\ \A k \in EmptySubInvoices :
               \E i \in RepeatedInside :
                   split_ret[k].range
                       = DateRange(split_dates[i][1], yesterday(split_dates[i][1]))

\* The list of test_split_dates: a change point to 7 and one to 6 on the
\* same day inside the invoice, giving three sub-invoices tagged 7, 7, 6 of
\* which the second holds no day.
C27_Witness ==
    /\ split_called
    /\ source = "given"
    /\ Len(split_dates) = 2
    /\ split_dates[1] = << 2, 7 >>
    /\ split_dates[2] = << 2, 6 >>
    /\ invoice = DateRange(0, MaxDay)
    /\ Len(split_ret) = 3
    /\ split_ret[1].people_count = 7
    /\ split_ret[2].people_count = 7
    /\ split_ret[3].people_count = 6
    /\ split_ret[2].range = DateRange(2, 1)

\* ------------------------------------------------------------------------
\* C24: the measured-date list and the keys of values
\* ------------------------------------------------------------------------

\* The dates values has an entry for.
ValueDates == DOMAIN values

\* The dates in the measured-date list.
ListedDates == { measured_dates[i] : i \in 1..Len(measured_dates) }

\* C24 as stated: the measured-date list is sorted ascending and holds
\* exactly the keys of values, after construction and after every
\* add_meter_value.
C24_Original ==
    /\ \A i, j \in 1..Len(measured_dates) : i < j => measured_dates[i] < measured_dates[j]
    /\ ListedDates = ValueDates

\* C24: the measured-date list is sorted ascending without repeats and
\* holds exactly the dates of the readings of the manager's meter given at
\* construction; add_meter_value leaves it as it is, so every listed date
\* is a key of values with a measured count, and the keys not listed are
\* exactly the placeholder entries ('Berechnet', count None) that
\* add_meter_value inserted.
C24_MeasuredDatesSortedAndFixed ==
    /\ \A i, j \in 1..Len(measured_dates) : i < j => measured_dates[i] < measured_dates[j]
    /\ ListedDates = MeasuredDates
    /\ ListedDates \subseteq ValueDates
    /\ \A d \in ListedDates : values[d].count # <<>> /\ values[d].notes = ""
    /\ \A d \in ValueDates \ ListedDates :
           values[d].count = <<>> /\ values[d].notes = "Berechnet"

\* Two measured dates in the list, and a placeholder for 15.01.2020 in
\* values that lies between them and is not listed.
C24_Witness ==
    /\ measured_dates = << 0, 31 >>
    /\ 14 \in ValueDates
    /\ values[14].notes = "Berechnet"
    /\ 14 \notin ListedDates

\* ------------------------------------------------------------------------
\* C30: when get_count_formula yields a formula
\* ------------------------------------------------------------------------

\* C30 as stated, in the part that fails: a formula is yielded only once
\* add_meter_value was called (for the date asked for, hence at all) and
\* the date has its row.
C30_Original ==
    (query # <<>> /\ answer.kind = "formula") =>
        /\ add_called
        /\ query[1] \in DOMAIN values
        /\ values[query[1]].row # <<>>

\* The least measured date that is not before d.
LeastFrom(d) ==
    CHOOSE a \in MeasuredDates : a >= d /\ \A m \in MeasuredDates : m >= d => a <= m

\* A measured date lies before d and one lies on or after d.
Bracketed(d) ==
    /\ \E m \in MeasuredDates : m < d
    /\ \E m \in MeasuredDates : m >= d

\* d has an entry with a row, and so have both dates of its bracket.
RowsKnown(d) ==
    /\ Bracketed(d)
    /\ d \in DOMAIN values
    /\ values[d].row # <<>>
    /\ values[GreatestBefore(d)].row # <<>>
    /\ values[LeastFrom(d)].row # <<>>

\* What a formula answer tells about the date d asked for: d has an entry,
\* measured at construction or inserted by add_meter_value, and set_row
\* has assigned rows to d and to both bracket dates.
FormulaOnlyWithRows ==
    (query # <<>> /\ answer.kind = "formula") =>
        /\ RowsKnown(query[1])
        /\ answer.before = GreatestBefore(query[1])
        /\ answer.after = LeastFrom(query[1])
        /\ \/ query[1] \in MeasuredDates
           \/ add_called /\ values[query[1]].notes = "Berechnet"

\* A call of get_count_formula changes nothing of the manager and the
\* sheet; it yields a formula exactly when the rows are known, raises
\* MeterValueException exactly when the date has no bracket, and its result
\* is the one any call for the date gives in this state.
QueryLeavesManagerUnchanged ==
    (query' # query \/ answer' # answer) =>
        /\ UNCHANGED <<meter_values, values, measured_dates, current_row, sheet>>
        /\ query' # <<>>
        /\ (answer'.kind = "formula") <=> RowsKnown(query'[1])
        /\ (answer'.kind = "MeterValueException") <=> ~Bracketed(query'[1])
        /\ answer' = get_count_formula(measured_dates', values', query'[1])

\* C30: get_count_formula(d) yields a formula exactly when d has a bracket
\* of measured dates (one before d, one on or after d), d has an entry in
\* values (a reading given at construction, or a placeholder inserted by
\* add_meter_value(d)) and set_row has assigned rows to d and to both
\* bracket dates; otherwise it fails; in every case it leaves values, the
\* rows and the measured-date list unchanged, so repeating the query gives
\* the same result.
C30_FormulaOnceRowsKnown ==
    []FormulaOnlyWithRows /\ [][QueryLeavesManagerUnchanged]_vars

\* A formula for the measured date 01.02.2020, bracketed by 01.01.2020 and
\* itself, yielded although add_meter_value was never called.
C30_Witness ==
    /\ query = << 31 >>
    /\ answer.kind = "formula"
    /\ 31 \in MeasuredDates
    /\ answer.before = 0
    /\ answer.after = 31
    /\ ~add_called

====
